---------------------------- MODULE Spec2Model ----------------------------
(***************************************************************************)
(* Model of the debt-tracker ledger: the Database persistence layer        *)
(* (src/src/database.rs), the BankingApp handlers that mutate the ledger   *)
(* and call save (src/src/app.rs), and the analytics computed from the     *)
(* in-memory transaction list.                                             *)
(*                                                                         *)
(* Scaling.  Amounts are f64 in the program.  The model keeps the shape of *)
(* f64 (finite values rounded to a fixed number of significant bits with   *)
(* ties-to-even, +inf, -inf, NaN) with MantBits significant bits instead   *)
(* of 53 and integer values only.  MAX_BACKUPS is 50 in the program and is *)
(* scaled down so that pruning happens within the explored runs.           *)
(***************************************************************************)
EXTENDS Integers, Sequences, FiniteSets, TLC

(* ------------------------------ bounds --------------------------------- *)

\* significant bits of the model's floating point format (f64 has 53)
MantBits == 3
\* largest local wall-clock second (backup file names embed the second)
MaxNow == 2
\* longest in-memory ledger
MaxTx == 2
\* number of injected I/O failures, crashes and external damages per run
MaxFaults == 1
\* the extra saves beyond MAX_BACKUPS after which pruning is observed
ExtraSaves == 1
\* longest ledger of the analytics specification
MaxLedger == 3
\* longest deadline history of a transaction
MaxChanges == 2

(* --------------------------- program constants ------------------------- *)

\* database.rs:11 (50 in the program, scaled)
MAX_BACKUPS == 2

(* ------------------------------- f64 ----------------------------------- *)

Fin(n) == [k |-> "fin", v |-> n]
PosInf == [k |-> "inf", v |-> 1]
NegInf == [k |-> "inf", v |-> -1]
NaN == [k |-> "nan", v |-> 0]

RECURSIVE Pow2(_)
Pow2(e) == IF e = 0 THEN 1 ELSE 2 * Pow2(e - 1)

\* the exponent e with 2^e the spacing of representable values around n >= 0
RECURSIVE Ulp(_, _)
Ulp(n, e) == IF n < Pow2(MantBits + e) THEN e ELSE Ulp(n, e + 1)

\* round-to-nearest, ties-to-even, of a non-negative integer
RoundNat(n) ==
    LET step == Pow2(Ulp(n, 0))
        lo == (n \div step) * step
        rem == n - lo
    IN  IF 2 * rem < step THEN lo
        ELSE IF 2 * rem > step THEN lo + step
        ELSE IF (lo \div step) % 2 = 0 THEN lo ELSE lo + step

Round(n) == IF n < 0 THEN -RoundNat(-n) ELSE RoundNat(n)

\* a + b on f64
FAdd(a, b) ==
    IF a.k = "nan" \/ b.k = "nan" THEN NaN
    ELSE IF a.k = "inf" /\ b.k = "inf" THEN (IF a.v = b.v THEN a ELSE NaN)
    ELSE IF a.k = "inf" THEN a
    ELSE IF b.k = "inf" THEN b
    ELSE Fin(Round(a.v + b.v))

FNeg(a) == IF a.k = "nan" THEN NaN ELSE [k |-> a.k, v |-> -a.v]

\* a - b on f64
FSub(a, b) == FAdd(a, FNeg(b))

\* a > 0.0 on f64 (false for NaN)
FGtZero_orZero(a) == a.k # "nan" /\ a.v >= 0
FGtZero(a) == a.k # "nan" /\ a.v > 0

\* a >= b on f64 (false when either is NaN)
FGe(a, b) ==
    /\ a.k # "nan" /\ b.k # "nan"
    /\ \/ (a.k = "inf" /\ a.v = 1)
       \/ (b.k = "inf" /\ b.v = -1)
       \/ (a.k = "fin" /\ b.k = "fin" /\ a.v >= b.v)

(* --------------------------- data model -------------------------------- *)

\* Option<NaiveDate>::None and Option<String>::None
NoDate == -1
NoPath == ""

LentDir == "Lent"
BorrowedDir == "Borrowed"
ReturnedDir == "Returned"
RepaidDir == "Repaid"
Direction == {LentDir, BorrowedDir, ReturnedDir, RepaidDir}

\* models.rs Transaction, with the deadline_changes field that app.rs fills
Transaction(person, amount, money_type, direction, datetime, expected, attachment, changes) ==
    [person |-> person, amount |-> amount, money_type |-> money_type,
     direction |-> direction, datetime |-> datetime,
     expected_return_date |-> expected, attachment_path |-> attachment,
     deadline_changes |-> changes]

\* models.rs DeadlineChange as constructed in app.rs
DeadlineChange_swapped(old, new, at) == [old_date |-> new, new_date |-> old, changed_at |-> at]
DeadlineChange(old, new, at) == [old_date |-> old, new_date |-> new, changed_at |-> at]

(* ------------------------ serde_json conversion ------------------------ *)

\* the JSON token written for a non-finite f64
JNull == [k |-> "null", v |-> 0]

\* serde_json writes a finite f64 as a number and NaN / infinity as null
ser_f64(a) == IF a.k = "fin" THEN a ELSE JNull

\* file contents: a JSON document holding the transactions array, bytes that
\* are not a complete JSON document, or no file at all
Json(txs) == [kind |-> "json", txs |-> txs]
Garbage == [kind |-> "garbage", txs |-> <<>>]
Absent == [kind |-> "absent", txs |-> <<>>]

\* serde_json::to_string_pretty(self)
to_string_pretty(db) ==
    Json([i \in 1..Len(db) |-> [db[i] EXCEPT !.amount = ser_f64(db[i].amount)]])

\* serde_json::from_str::<Database>(&data): Err on bytes that are not JSON
\* and on null where an f64 is expected
from_str(data) ==
    IF data.kind = "json" /\ \A i \in 1..Len(data.txs) : data.txs[i].amount.k = "fin"
    THEN [ok |-> TRUE, db |-> data.txs]
    ELSE [ok |-> FALSE, db |-> <<>>]

(* ---------------------------- file system ------------------------------ *)

\* a file of the backup directory: transactions_backup_<name>.json, where
\* name is the local second the name was formatted at
BackupFile(name, content) == [name |-> name, content |-> content]

\* The backup directory is the sequence of its files in the order of their
\* modification times, least recently modified first: every write stamps the
\* file it writes with a modification time later than all earlier ones.

NoFile == -1

\* two files that are no backups of the program, put into the backup
\* directory by the user: zzz.json and zzz.txt; as paths both sort after
\* every transactions_backup_ name
ZzzJson == 1000
ZzzTxt == 1001

\* path.extension()?.to_str()? == "json"
is_json(name) == name # ZzzTxt

\* the filter_map over fs::read_dir(BACKUP_DIR): the positions of the .json
\* files, in the order of the directory
json_files(files) == SelectSeq([i \in 1..Len(files) |-> i], LAMBDA i : is_json(files[i].name))

Names(files) == {files[i].name : i \in 1..Len(files)}
FileNamed(files, n) == files[CHOOSE i \in 1..Len(files) : files[i].name = n]

\* WriteFile that leaves an existing file of that name as it is
WriteFile_keep(files, name, content) ==
    IF name \in Names(files) THEN files ELSE Append(files, BackupFile(name, content))

\* fs::copy / fs::write to a path of the backup directory: creates the file
\* or replaces the file of that name, which becomes the most recently modified
WriteFile(files, name, content) ==
    LET others == SelectSeq(files, LAMBDA f : f.name # name)
    IN  Append(others, BackupFile(name, content))

MaxOf(S) == CHOOSE x \in S : \A y \in S : y <= x

\* get_most_recent_backup without backups.reverse(): the least path
get_most_recent_backup_unreversed(dirExists, files) ==
    LET jsons == {files[i].name : i \in {j \in 1..Len(files) : is_json(files[j].name)}}
    IN  IF ~dirExists THEN NoFile
        ELSE IF jsons = {} THEN NoFile
        ELSE CHOOSE x \in jsons : \A y \in jsons : x <= y

\* Database::get_most_recent_backup: the greatest path of the directory's
\* .json files (fixed-width timestamps: string order is numeric order)
get_most_recent_backup(dirExists, files) ==
    LET jsons == {files[i].name : i \in {j \in 1..Len(files) : is_json(files[j].name)}}
    IN  IF ~dirExists THEN NoFile
        ELSE IF jsons = {} THEN NoFile
        ELSE MaxOf(jsons)

\* load that falls back to whatever the primary holds instead of
\* Database::default()
load_lenient(prim, dirExists, files) ==
    IF prim.kind # "absent" /\ from_str(prim).ok
    THEN [db |-> from_str(prim).db, path |-> "primary", restore |-> NoFile]
    ELSE LET backup == get_most_recent_backup(dirExists, files)
         IN  IF backup # NoFile /\ from_str(FileNamed(files, backup).content).ok
             THEN [db |-> from_str(FileNamed(files, backup).content).db,
                   path |-> "backup", restore |-> backup]
             ELSE [db |-> prim.txs, path |-> "default", restore |-> NoFile]

\* Database::load, up to the copy that restores the primary: the database it
\* returns, the branch it returned from and the backup it restores from
load(prim, dirExists, files) ==
    IF prim.kind # "absent" /\ from_str(prim).ok
    THEN [db |-> from_str(prim).db, path |-> "primary", restore |-> NoFile]
    ELSE LET backup == get_most_recent_backup(dirExists, files)
         IN  IF backup # NoFile /\ from_str(FileNamed(files, backup).content).ok
             THEN [db |-> from_str(FileNamed(files, backup).content).db,
                   path |-> "backup", restore |-> backup]
             ELSE [db |-> <<>>, path |-> "default", restore |-> NoFile]

\* Database::cleanup_old_backups: the positions of the .json files past the
\* first MAX_BACKUPS when sorted by modification time, newest first
old_backups(files) ==
    LET jsons == json_files(files)
    IN  IF Len(jsons) > MAX_BACKUPS
        THEN {jsons[k] : k \in 1..(Len(jsons) - MAX_BACKUPS)}
        ELSE {}

\* fs::remove_file on the files at these positions
remove_files(files, positions) ==
    LET F[i \in 0..Len(files)] ==
            IF i = 0 THEN <<>>
            ELSE IF i \in positions THEN F[i - 1] ELSE Append(F[i - 1], files[i])
    IN  F[Len(files)]

\* Database::add_transaction
add_transaction_front(db, transaction) == <<transaction>> \o db
add_transaction(db, transaction) == Append(db, transaction)

(* ------------------------------ form input ----------------------------- *)

\* str::parse::<f64> on the amount texts the model types into the form
ParseTable ==
    [s \in {"0", "1", "2", "8", "-1", "inf", "nan"} |->
        CASE s = "0" -> Fin(0)
          [] s = "1" -> Fin(1)
          [] s = "2" -> Fin(2)
          [] s = "8" -> Fin(8)
          [] s = "-1" -> Fin(-1)
          [] s = "inf" -> PosInf
          [] s = "nan" -> NaN]

parse_f64(s) ==
    IF s \in DOMAIN ParseTable THEN [ok |-> TRUE, v |-> ParseTable[s]]
    ELSE [ok |-> FALSE, v |-> NaN]

\* str::trim on the names the model types into the form
trim(s) == IF s = " " THEN "" ELSE IF s = " ann" THEN "ann" ELSE s

\* show_add_transaction: can_set_expected
can_set_expected_any(direction) == direction \in Direction
can_set_expected(direction) == direction \in {LentDir, BorrowedDir}

(* ------------------------------- state --------------------------------- *)

VARIABLES
    ledger,                  \* self.db.transactions
    status_message,          \* "", "ok" (starts with a check mark), "err", "warn"
    editing_deadline_for,    \* Option<usize>, 0 for None, else 1-based index
    temp_new_deadline,
    edit_transaction_index,  \* Option<usize>, 0 for None, else 1-based index
    direction,               \* the Direction selected in the add form
    has_expected_return,     \* the Set date checkbox of the add form
    pc,                      \* position of the process
    caller,                  \* the handler that called save
    saveResult,              \* what save returns: "Ok", "Err" or "" while running
    primary,                 \* content of transactions.json
    backupDir,               \* whether backups/ exists
    backups,                 \* files of backups/, least recently modified first
    now,                     \* local wall clock, in seconds
    faults,                  \* injected failures so far
    clockBack,               \* whether the wall clock ever moved backward
    loadPath,                \* branch the last Database::load returned from
    atStart,                 \* storage as the running save found it
    stepFailed,              \* whether a step of the running save failed
    okSaves,                 \* saves that returned Ok so far
    durable,                 \* ledger of the last Ok save, while storage is untouched since
    interrupted,             \* the save a crash interrupted, while storage is untouched since
    analysis,                \* what the Analysis tab last computed
    paid_back,               \* what the Transactions tab last marked as paid back
    files,                   \* the user's files and those of attachments/: path to bytes
    copied                   \* what the last direct call of copy_attachment_to_storage returned

vars == <<ledger, status_message, editing_deadline_for, temp_new_deadline,
          edit_transaction_index, direction, has_expected_return, pc, caller, saveResult, primary, backupDir,
          backups, now, faults, clockBack, loadPath, atStart, stepFailed,
          okSaves, durable, interrupted, analysis, paid_back, files, copied>>

uiVars == <<status_message, editing_deadline_for, temp_new_deadline, edit_transaction_index>>
fsVars == <<primary, backupDir, backups>>
clockVars == <<now, clockBack>>
histVars == <<loadPath, atStart, stepFailed, okSaves, durable, interrupted>>
viewVars == <<analysis, paid_back>>
formVars == <<direction, has_expected_return>>
storeVars == <<files, copied>>

\* the files the user can pick in the file dialog, with their bytes
SourceFiles == [source \in {"a.png", "notes"} |-> IF source = "a.png" THEN <<1, 2>> ELSE <<3, 4>>]

\* copied before copy_attachment_to_storage was called
NoCopy == [called |-> FALSE, ok |-> FALSE, path |-> ""]

\* atStart while no save is running
NoSave == [primary |-> Absent, persisted |-> <<>>]

\* analysis before the Analysis tab was shown
NoAnalysis ==
    [shown |-> FALSE, balances |-> <<>>, timeline |-> <<>>, people |-> <<>>, cards |-> <<>>]

\* paid_back before the Transactions tab listed a transaction
NoMarks == [shown |-> FALSE, indices |-> {}]

None == [some |-> FALSE, db |-> <<>>, writing |-> <<>>]
Some(db, writing) == [some |-> TRUE, db |-> db, writing |-> writing]

(* ------------------------------ startup -------------------------------- *)

Init ==
    /\ ledger = <<>>
    /\ status_message = ""
    /\ editing_deadline_for = 0
    /\ temp_new_deadline = 0
    /\ edit_transaction_index = 0
    /\ direction = LentDir
    /\ has_expected_return = FALSE
    /\ pc = "down"
    /\ caller = ""
    /\ saveResult = ""
    /\ primary = Absent
    /\ backupDir = FALSE
    /\ backups = <<>>
    /\ now = 0
    /\ faults = 0
    /\ clockBack = FALSE
    /\ loadPath = "none"
    /\ atStart = NoSave
    /\ stepFailed = FALSE
    /\ okSaves = 0
    /\ durable = None
    /\ interrupted = None
    /\ analysis = NoAnalysis
    /\ paid_back = NoMarks
    /\ files = SourceFiles
    /\ copied = NoCopy

\* Database::load where no restoring copy is made or the copy succeeds
Load ==
    /\ pc = "down"
    /\ LET r == load(primary, backupDir, backups)
       IN  /\ ledger' = r.db
           /\ loadPath' = r.path
           /\ primary' = IF r.restore = NoFile THEN primary
                         ELSE FileNamed(backups, r.restore).content
    /\ pc' = "loaded"
    /\ UNCHANGED <<uiVars, caller, saveResult, backupDir, backups, faults,
                   clockVars, atStart, stepFailed, okSaves, durable, interrupted>>
    /\ UNCHANGED formVars
    /\ UNCHANGED viewVars
    /\ UNCHANGED storeVars

\* Database::load where fs::copy(&backup, DB_FILE) fails: the result is
\* dropped, the primary is left as it was or partly written
LoadCopyFail ==
    /\ pc = "down"
    /\ faults < MaxFaults
    /\ LET r == load(primary, backupDir, backups)
       IN  /\ r.restore # NoFile
           /\ ledger' = r.db
           /\ loadPath' = r.path
    /\ primary' \in {primary, Garbage}
    /\ faults' = faults + 1
    /\ pc' = "loaded"
    /\ UNCHANGED <<uiVars, caller, saveResult, backupDir, backups,
                   clockVars, atStart, stepFailed, okSaves, durable, interrupted>>
    /\ UNCHANGED formVars
    /\ UNCHANGED viewVars
    /\ UNCHANGED storeVars

\* BankingApp::default: the fields around db: Database::load()
AppDefault ==
    /\ pc = "loaded"
    /\ status_message' = ""
    /\ editing_deadline_for' = 0
    /\ temp_new_deadline' = 0
    /\ edit_transaction_index' = 0
    /\ direction' = LentDir
    /\ has_expected_return' = FALSE
    /\ pc' = "idle"
    /\ interrupted' = None
    /\ UNCHANGED <<ledger, caller, saveResult, fsVars, faults, clockVars, loadPath,
                   atStart, stepFailed, okSaves, durable>>
    /\ UNCHANGED viewVars
    /\ UNCHANGED storeVars

\* the window is closed: the process and its memory are gone
Quit ==
    /\ pc = "idle"
    /\ pc' = "down"
    /\ ledger' = <<>>
    /\ status_message' = ""
    /\ editing_deadline_for' = 0
    /\ temp_new_deadline' = 0
    /\ edit_transaction_index' = 0
    /\ direction' = LentDir
    /\ has_expected_return' = FALSE
    /\ UNCHANGED <<caller, saveResult, fsVars, faults, clockVars, histVars>>
    /\ UNCHANGED viewVars
    /\ UNCHANGED storeVars

(* ------------------------------- clock --------------------------------- *)

Tick ==
    /\ now < MaxNow
    /\ now' = now + 1
    /\ UNCHANGED <<ledger, uiVars, pc, caller, saveResult, fsVars, faults, clockBack, histVars>>
    /\ UNCHANGED formVars
    /\ UNCHANGED viewVars
    /\ UNCHANGED storeVars

\* the local clock is set back (daylight saving, manual change)
ClockBack ==
    /\ now > 0
    /\ now' \in 0..(now - 1)
    /\ clockBack' = TRUE
    /\ UNCHANGED <<ledger, uiVars, pc, caller, saveResult, fsVars, faults, histVars>>
    /\ UNCHANGED formVars
    /\ UNCHANGED viewVars
    /\ UNCHANGED storeVars

(* --------------------------- Database::save ---------------------------- *)

SavePcs == {"mkdir", "pre", "write", "post", "cleanup"}

\* the call self.db.save() made by handler c
BeginSave(c) ==
    /\ pc' = "mkdir"
    /\ caller' = c
    /\ saveResult' = ""
    /\ atStart' = [primary |-> primary, persisted |-> load(primary, backupDir, backups).db]
    /\ stepFailed' = FALSE
    /\ durable' = None
    /\ interrupted' = None

\* save returns Err from the step at which ? propagates
ReturnErr ==
    /\ pc' = "ret"
    /\ saveResult' = "Err"
    /\ stepFailed' = TRUE
    /\ faults' = faults + 1

\* fs::create_dir_all(BACKUP_DIR)?
SaveMkdir ==
    /\ pc = "mkdir"
    /\ backupDir' = TRUE
    /\ pc' = "pre"
    /\ UNCHANGED <<ledger, uiVars, caller, saveResult, primary, backups, faults,
                   clockVars, histVars>>
    /\ UNCHANGED formVars
    /\ UNCHANGED viewVars
    /\ UNCHANGED storeVars

SaveMkdirFail ==
    /\ pc = "mkdir"
    /\ ~backupDir
    /\ faults < MaxFaults
    /\ ReturnErr
    /\ UNCHANGED <<ledger, uiVars, caller, fsVars, clockVars, loadPath, atStart, okSaves,
                   durable, interrupted>>
    /\ UNCHANGED formVars
    /\ UNCHANGED viewVars
    /\ UNCHANGED storeVars

\* if Path::new(DB_FILE).exists() { fs::copy(DB_FILE, &backup_file)?; }
SavePreBackup ==
    /\ pc = "pre"
    /\ IF primary.kind = "absent"
       THEN UNCHANGED backups
       ELSE backups' = WriteFile(backups, now, primary)
    /\ pc' = "write"
    /\ UNCHANGED <<ledger, uiVars, caller, saveResult, primary, backupDir, faults,
                   clockVars, histVars>>
    /\ UNCHANGED formVars
    /\ UNCHANGED viewVars
    /\ UNCHANGED storeVars

\* a pre-save backup made by moving the primary, which a failure leaves moved
SavePreBackupFail_moved ==
    /\ pc = "pre"
    /\ primary.kind # "absent"
    /\ faults < MaxFaults
    /\ \/ UNCHANGED backups
       \/ backups' = WriteFile(backups, now, Garbage)
    /\ primary' = Absent
    /\ ReturnErr
    /\ UNCHANGED <<ledger, uiVars, caller, backupDir, clockVars, loadPath,
                   atStart, okSaves, durable, interrupted>>
    /\ UNCHANGED formVars
    /\ UNCHANGED viewVars
    /\ UNCHANGED storeVars

\* fs::copy(DB_FILE, &backup_file)? fails, with or without a partial copy
SavePreBackupFail ==
    /\ pc = "pre"
    /\ primary.kind # "absent"
    /\ faults < MaxFaults
    /\ \/ UNCHANGED backups
       \/ backups' = WriteFile(backups, now, Garbage)
    /\ ReturnErr
    /\ UNCHANGED <<ledger, uiVars, caller, primary, backupDir, clockVars, loadPath,
                   atStart, okSaves, durable, interrupted>>
    /\ UNCHANGED formVars
    /\ UNCHANGED viewVars
    /\ UNCHANGED storeVars

\* let json = serde_json::to_string_pretty(self)?; fs::write(DB_FILE, &json)?;
SaveWritePrimary ==
    /\ pc = "write"
    /\ primary' = to_string_pretty(ledger)
    /\ pc' = "post"
    /\ UNCHANGED <<ledger, uiVars, caller, saveResult, backupDir, backups, faults,
                   clockVars, histVars>>
    /\ UNCHANGED formVars
    /\ UNCHANGED viewVars
    /\ UNCHANGED storeVars

\* a failed write of the primary that also takes back the last transaction
SaveWritePrimaryFail_rollback ==
    /\ pc = "write"
    /\ faults < MaxFaults
    /\ primary' \in {primary, Garbage}
    /\ ReturnErr
    /\ ledger' = SubSeq(ledger, 1, Len(ledger) - 1)
    /\ UNCHANGED <<uiVars, caller, backupDir, backups, clockVars, loadPath,
                   atStart, okSaves, durable, interrupted>>
    /\ UNCHANGED formVars
    /\ UNCHANGED viewVars
    /\ UNCHANGED storeVars

SaveWritePrimaryFail ==
    /\ pc = "write"
    /\ faults < MaxFaults
    /\ primary' \in {primary, Garbage}
    /\ ReturnErr
    /\ UNCHANGED <<ledger, uiVars, caller, backupDir, backups, clockVars, loadPath,
                   atStart, okSaves, durable, interrupted>>
    /\ UNCHANGED formVars
    /\ UNCHANGED viewVars
    /\ UNCHANGED storeVars

\* fs::write(&backup_file, &json)? under a freshly formatted timestamp
SavePostBackup ==
    /\ pc = "post"
    /\ backups' = WriteFile(backups, now, to_string_pretty(ledger))
    /\ pc' = "cleanup"
    /\ UNCHANGED <<ledger, uiVars, caller, saveResult, primary, backupDir, faults,
                   clockVars, histVars>>
    /\ UNCHANGED formVars
    /\ UNCHANGED viewVars
    /\ UNCHANGED storeVars

SavePostBackupFail ==
    /\ pc = "post"
    /\ faults < MaxFaults
    /\ \/ UNCHANGED backups
       \/ backups' = WriteFile(backups, now, Garbage)
    /\ ReturnErr
    /\ UNCHANGED <<ledger, uiVars, caller, primary, backupDir, clockVars, loadPath,
                   atStart, okSaves, durable, interrupted>>
    /\ UNCHANGED formVars
    /\ UNCHANGED viewVars
    /\ UNCHANGED storeVars

\* save returns Ok(())
ReturnOk ==
    /\ pc' = "ret"
    /\ saveResult' = "Ok"
    /\ okSaves' = IF okSaves < MAX_BACKUPS + ExtraSaves THEN okSaves + 1 ELSE okSaves
    /\ durable' = Some(ledger, ledger)

\* Self::cleanup_old_backups()?; Ok(()) with every remove_file succeeding
SaveCleanup ==
    /\ pc = "cleanup"
    /\ backups' = IF backupDir THEN remove_files(backups, old_backups(backups))
                   ELSE backups
    /\ ReturnOk
    /\ UNCHANGED <<ledger, uiVars, caller, primary, backupDir, faults, clockVars,
                   loadPath, atStart, stepFailed, interrupted>>
    /\ UNCHANGED formVars
    /\ UNCHANGED viewVars
    /\ UNCHANGED storeVars

\* cleanup_old_backups where a remove_file fails: let _ = fs::remove_file(path)
SaveCleanupRemoveFail ==
    /\ pc = "cleanup"
    /\ backupDir
    /\ faults < MaxFaults
    /\ \E kept \in old_backups(backups) :
          backups' = remove_files(backups, old_backups(backups) \ {kept})
    /\ stepFailed' = TRUE
    /\ faults' = faults + 1
    /\ ReturnOk
    /\ UNCHANGED <<ledger, uiVars, caller, primary, backupDir, clockVars,
                   loadPath, atStart, interrupted>>
    /\ UNCHANGED formVars
    /\ UNCHANGED viewVars
    /\ UNCHANGED storeVars

\* cleanup_old_backups where fs::read_dir(BACKUP_DIR)? fails
SaveCleanupFail ==
    /\ pc = "cleanup"
    /\ backupDir
    /\ faults < MaxFaults
    /\ ReturnErr
    /\ UNCHANGED <<ledger, uiVars, caller, fsVars, clockVars, loadPath, atStart, okSaves,
                   durable, interrupted>>
    /\ UNCHANGED formVars
    /\ UNCHANGED viewVars
    /\ UNCHANGED storeVars

\* the handler's code after self.db.save() returned
SaveReturn ==
    /\ pc = "ret"
    /\ pc' = "idle"
    /\ status_message' =
          IF caller = "attach" THEN "ok"
          ELSE IF saveResult = "Err" THEN "err" ELSE "ok"
    /\ editing_deadline_for' = IF caller = "deadline" THEN 0 ELSE editing_deadline_for
    /\ edit_transaction_index' = IF caller = "attach" THEN 0 ELSE edit_transaction_index
    /\ has_expected_return' =
          IF caller = "add" /\ saveResult = "Ok" THEN FALSE ELSE has_expected_return
    /\ caller' = ""
    /\ saveResult' = ""
    /\ atStart' = NoSave
    /\ stepFailed' = FALSE
    /\ UNCHANGED <<ledger, temp_new_deadline, direction, fsVars, faults, clockVars, loadPath,
                   okSaves, durable, interrupted>>
    /\ UNCHANGED viewVars
    /\ UNCHANGED storeVars

\* the process dies inside save; the file being written may be left partial
Crash ==
    /\ pc \in SavePcs
    /\ faults < MaxFaults
    /\ \/ UNCHANGED <<primary, backups>>
       \/ /\ pc = "write"
          /\ primary' = Garbage
          /\ UNCHANGED backups
       \/ /\ pc = "post" \/ (pc = "pre" /\ primary.kind # "absent")
          /\ backups' = WriteFile(backups, now, Garbage)
          /\ UNCHANGED primary
    /\ faults' = faults + 1
    /\ interrupted' = Some(atStart.persisted, ledger)
    /\ durable' = None
    /\ pc' = "down"
    /\ ledger' = <<>>
    /\ status_message' = ""
    /\ editing_deadline_for' = 0
    /\ temp_new_deadline' = 0
    /\ edit_transaction_index' = 0
    /\ direction' = LentDir
    /\ has_expected_return' = FALSE
    /\ caller' = ""
    /\ saveResult' = ""
    /\ atStart' = NoSave
    /\ stepFailed' = FALSE
    /\ UNCHANGED <<backupDir, clockVars, loadPath, okSaves>>
    /\ UNCHANGED viewVars
    /\ UNCHANGED storeVars

\* the primary file is deleted or damaged while the program is not running
Damage ==
    /\ pc = "down"
    /\ faults < MaxFaults
    /\ primary' \in {Absent, Garbage} \ {primary}
    /\ faults' = faults + 1
    /\ durable' = None
    /\ interrupted' = None
    /\ UNCHANGED <<ledger, uiVars, pc, caller, saveResult, backupDir, backups,
                   clockVars, loadPath, atStart, stepFailed, okSaves>>
    /\ UNCHANGED formVars
    /\ UNCHANGED viewVars
    /\ UNCHANGED storeVars

(* -------------------------- attachment store -------------------------- *)

\* Path::file_name and Path::extension on the source paths the model picks
file_name(source) == IF source = ".." THEN "" ELSE source
extension(source) == IF source \in {"a.png", "gone.png"} THEN "png" ELSE ""

\* std::fs::copy(from, to) that stops after `written` bytes: Err with the
\* files as they were when from cannot be opened; else to is created or
\* truncated and holds the bytes written, all of them when the copy is Ok
fs_copy(fs, from, to, written) ==
    IF from \notin DOMAIN fs
    THEN [ok |-> FALSE, files |-> fs]
    ELSE LET n == IF written < Len(fs[from]) THEN written ELSE Len(fs[from])
         IN  [ok |-> n = Len(fs[from]),
              files |-> [x \in (DOMAIN fs) \cup {to} |->
                            IF x = to THEN SubSeq(fs[from], 1, n) ELSE fs[x]]]

\* Database::copy_attachment_to_storage: the destination path, or Err when
\* the file name cannot be determined or the copy fails, and the files after
\* the call
copy_attachment_to_storage_bare(fs, source, timestamp, written) ==
    IF file_name(source) = ""
    THEN [ok |-> FALSE, path |-> NoPath, files |-> fs]
    ELSE LET dest_path == "attachments/" \o ToString(timestamp) \o "_" \o file_name(source)
             copy == fs_copy(fs, source, dest_path, written)
         IN  [ok |-> copy.ok,
              path |-> IF copy.ok THEN dest_path ELSE NoPath,
              files |-> copy.files]
copy_attachment_to_storage(fs, source, timestamp, written) ==
    IF file_name(source) = ""
    THEN [ok |-> FALSE, path |-> NoPath, files |-> fs]
    ELSE LET extension_or == IF extension(source) = "" THEN "png" ELSE extension(source)
             new_filename == ToString(timestamp) \o "_" \o file_name(source) \o "."
                             \o extension_or
             dest_path == "attachments/" \o new_filename
             copy == fs_copy(fs, source, dest_path, written)
         IN  [ok |-> copy.ok,
              path |-> IF copy.ok THEN dest_path ELSE NoPath,
              files |-> copy.files]

\* a call of copy_attachment_to_storage on its own
CopyAttachment(source, written) ==
    /\ pc = "idle"
    /\ LET stored == copy_attachment_to_storage(files, source, now, written)
       IN  /\ files' = stored.files
           /\ copied' = [called |-> TRUE, ok |-> stored.ok, path |-> stored.path]
    /\ UNCHANGED <<ledger, uiVars, pc, caller, saveResult, fsVars, faults, clockVars,
                   histVars>>
    /\ UNCHANGED formVars
    /\ UNCHANGED viewVars

(* ------------------------------ handlers ------------------------------- *)

\* show_add_transaction: the Direction combo box selects d; the Expected
\* Return row drawn after it clears the checkbox when no date can be set
SetDirection(d) ==
    /\ pc = "idle"
    /\ direction' = d
    /\ has_expected_return' = IF can_set_expected(d) THEN has_expected_return ELSE FALSE
    /\ UNCHANGED <<ledger, uiVars, pc, caller, saveResult, fsVars, faults, clockVars,
                   histVars>>
    /\ UNCHANGED viewVars
    /\ UNCHANGED storeVars

\* show_add_transaction: the Set date checkbox, drawn only when a date can
\* be set, is toggled
ToggleSetDate ==
    /\ pc = "idle"
    /\ can_set_expected(direction)
    /\ has_expected_return' = ~has_expected_return
    /\ UNCHANGED <<ledger, uiVars, pc, caller, saveResult, fsVars, faults, clockVars,
                   histVars, direction>>
    /\ UNCHANGED viewVars
    /\ UNCHANGED storeVars

\* show_add_transaction: a frame in which the Add Transaction button is
\* clicked with the form holding these values; the Expected Return row is
\* drawn before the button; source is the picked attachment ("" for none)
AddClick(person_name, amount, money_type, datetime, expected_return_date, source, written) ==
    /\ pc = "idle"
    /\ LET parsed == parse_f64(amount)
           stored == copy_attachment_to_storage(files, source, now, written)
           checked == IF can_set_expected(direction) THEN has_expected_return ELSE FALSE
           transaction ==
               Transaction(trim(person_name), parsed.v, money_type, direction, datetime,
                           IF checked THEN expected_return_date ELSE NoDate,
                           IF source # "" /\ stored.ok THEN stored.path ELSE NoPath,
                           <<>>)
       IN  /\ has_expected_return' = checked
           /\ UNCHANGED direction
           /\ IF parsed.ok /\ trim(person_name) # "" /\ FGtZero(parsed.v)
              THEN /\ Len(ledger) < MaxTx
                   /\ ledger' = add_transaction(ledger, transaction)
                   /\ status_message' = IF source # "" /\ ~stored.ok THEN "warn"
                                        ELSE status_message
                   /\ files' = IF source # "" THEN stored.files ELSE files
                   /\ BeginSave("add")
                   /\ UNCHANGED <<editing_deadline_for, temp_new_deadline,
                                  edit_transaction_index, fsVars, faults, clockVars,
                                  loadPath, okSaves>>
              ELSE /\ status_message' = "warn"
                   /\ UNCHANGED files
                   /\ UNCHANGED <<ledger, editing_deadline_for, temp_new_deadline,
                                  edit_transaction_index, pc, caller, saveResult, fsVars,
                                  faults, clockVars, histVars>>
    /\ UNCHANGED viewVars
    /\ UNCHANGED copied

\* show_transactions: the deadline button of row i is clicked
DeadlineOpen(i) ==
    /\ pc = "idle"
    /\ i \in 1..Len(ledger)
    /\ ledger[i].expected_return_date # NoDate
    /\ ledger[i].direction \in {LentDir, BorrowedDir}
    /\ editing_deadline_for' = i
    /\ temp_new_deadline' = ledger[i].expected_return_date
    /\ UNCHANGED <<ledger, status_message, edit_transaction_index, pc, caller, saveResult,
                   fsVars, faults, clockVars, histVars>>
    /\ UNCHANGED formVars
    /\ UNCHANGED viewVars
    /\ UNCHANGED storeVars

\* the date picker of the Change Deadline window
DeadlinePick(d) ==
    /\ pc = "idle"
    /\ editing_deadline_for # 0
    /\ temp_new_deadline' = d
    /\ UNCHANGED <<ledger, status_message, editing_deadline_for, edit_transaction_index,
                   pc, caller, saveResult, fsVars, faults, clockVars, histVars>>
    /\ UNCHANGED formVars
    /\ UNCHANGED viewVars
    /\ UNCHANGED storeVars

\* a Save that records the picked date even when it is the date the
\* transaction already has
DeadlineSave_always ==
    /\ pc = "idle"
    /\ editing_deadline_for # 0
    /\ LET t == ledger[editing_deadline_for]
           old_deadline == t.expected_return_date
       IN  IF old_deadline # NoDate
           THEN /\ Len(t.deadline_changes) < MaxChanges
                /\ ledger' = [ledger EXCEPT ![editing_deadline_for] =
                     [t EXCEPT !.deadline_changes =
                                   Append(@, DeadlineChange(old_deadline, temp_new_deadline, now)),
                               !.expected_return_date = temp_new_deadline]]
                /\ BeginSave("deadline")
                /\ UNCHANGED <<uiVars, fsVars, faults, clockVars, loadPath, okSaves>>
           ELSE /\ editing_deadline_for' = 0
                /\ UNCHANGED <<ledger, status_message, temp_new_deadline,
                               edit_transaction_index, pc, caller, saveResult, fsVars,
                               faults, clockVars, histVars>>
    /\ UNCHANGED formVars
    /\ UNCHANGED viewVars
    /\ UNCHANGED storeVars

\* Save of the Change Deadline window
DeadlineSave ==
    /\ pc = "idle"
    /\ editing_deadline_for # 0
    /\ LET t == ledger[editing_deadline_for]
           old_deadline == t.expected_return_date
       IN  IF old_deadline # NoDate /\ old_deadline # temp_new_deadline
           THEN /\ Len(t.deadline_changes) < MaxChanges
                /\ ledger' = [ledger EXCEPT ![editing_deadline_for] =
                     [t EXCEPT !.deadline_changes =
                                   Append(@, DeadlineChange(old_deadline, temp_new_deadline, now)),
                               !.expected_return_date = temp_new_deadline]]
                /\ BeginSave("deadline")
                /\ UNCHANGED <<uiVars, fsVars, faults, clockVars, loadPath, okSaves>>
           ELSE /\ editing_deadline_for' = 0
                /\ UNCHANGED <<ledger, status_message, temp_new_deadline,
                               edit_transaction_index, pc, caller, saveResult, fsVars,
                               faults, clockVars, histVars>>
    /\ UNCHANGED formVars
    /\ UNCHANGED viewVars
    /\ UNCHANGED storeVars

\* Cancel of the Change Deadline window
DeadlineCancel ==
    /\ pc = "idle"
    /\ editing_deadline_for # 0
    /\ editing_deadline_for' = 0
    /\ UNCHANGED <<ledger, status_message, temp_new_deadline, edit_transaction_index,
                   pc, caller, saveResult, fsVars, faults, clockVars, histVars>>
    /\ UNCHANGED formVars
    /\ UNCHANGED viewVars
    /\ UNCHANGED storeVars

\* show_transactions: the edit button of row i is clicked
EditOpen(i) ==
    /\ pc = "idle"
    /\ i \in 1..Len(ledger)
    /\ edit_transaction_index' = i
    /\ UNCHANGED <<ledger, status_message, editing_deadline_for, temp_new_deadline,
                   pc, caller, saveResult, fsVars, faults, clockVars, histVars>>
    /\ UNCHANGED formVars
    /\ UNCHANGED viewVars
    /\ UNCHANGED storeVars

\* Change... of the Edit Transaction window: the picked file is copied and
\* the transaction's attachment_path is set in the same frame
EditChange(source, written) ==
    /\ pc = "idle"
    /\ edit_transaction_index # 0
    /\ LET stored == copy_attachment_to_storage(files, source, now, written)
       IN  /\ files' = stored.files
           /\ IF stored.ok
              THEN /\ ledger' = [ledger EXCEPT ![edit_transaction_index].attachment_path =
                                                   stored.path]
                   /\ UNCHANGED status_message
              ELSE /\ status_message' = "warn"
                   /\ UNCHANGED ledger
    /\ UNCHANGED <<editing_deadline_for, temp_new_deadline, edit_transaction_index,
                   pc, caller, saveResult, fsVars, faults, clockVars, histVars>>
    /\ UNCHANGED formVars
    /\ UNCHANGED viewVars
    /\ UNCHANGED copied

\* the remove button next to the attachment name in the Edit Transaction window
EditRemove ==
    /\ pc = "idle"
    /\ edit_transaction_index # 0
    /\ ledger[edit_transaction_index].attachment_path # NoPath
    /\ ledger' = [ledger EXCEPT ![edit_transaction_index].attachment_path = NoPath]
    /\ UNCHANGED <<uiVars, pc, caller, saveResult, fsVars, faults, clockVars, histVars>>
    /\ UNCHANGED formVars
    /\ UNCHANGED viewVars
    /\ UNCHANGED storeVars

\* Save of the Edit Transaction window
EditSave ==
    /\ pc = "idle"
    /\ edit_transaction_index # 0
    /\ BeginSave("attach")
    /\ UNCHANGED <<ledger, uiVars, fsVars, faults, clockVars, loadPath, okSaves>>
    /\ UNCHANGED formVars
    /\ UNCHANGED viewVars
    /\ UNCHANGED storeVars

\* Cancel of the Edit Transaction window
EditCancel ==
    /\ pc = "idle"
    /\ edit_transaction_index # 0
    /\ edit_transaction_index' = 0
    /\ UNCHANGED <<ledger, status_message, editing_deadline_for, temp_new_deadline,
                   pc, caller, saveResult, fsVars, faults, clockVars, histVars>>
    /\ UNCHANGED formVars
    /\ UNCHANGED viewVars
    /\ UNCHANGED storeVars

(* ------------------------------ analytics ------------------------------ *)

\* HashMap::insert / entry().or_insert() on a map held as a function
Put(map, key, value) ==
    [x \in (DOMAIN map) \cup {key} |-> IF x = key THEN value ELSE map[x]]

Get(map, key, default) == IF key \in DOMAIN map THEN map[key] ELSE default

\* the match on t.direction with Repaid added to the balance
balance_step_repaid_on(balance, t) ==
    CASE t.direction = LentDir -> FSub(balance, t.amount)
      [] t.direction = BorrowedDir -> FAdd(balance, t.amount)
      [] t.direction = ReturnedDir -> FAdd(balance, t.amount)
      [] t.direction = RepaidDir -> FAdd(balance, t.amount)

\* show_analysis: the match on t.direction that updates *balance
balance_step(balance, t) ==
    CASE t.direction = LentDir -> FSub(balance, t.amount)
      [] t.direction = BorrowedDir -> FAdd(balance, t.amount)
      [] t.direction = ReturnedDir -> FAdd(balance, t.amount)
      [] t.direction = RepaidDir -> FSub(balance, t.amount)

\* show_analysis: balances_by_currency, scanned in insertion order
balances_by_currency(db) ==
    LET B[i \in 0..Len(db)] ==
            IF i = 0 THEN [c \in {"GEL", "USD", "EUR"} |-> Fin(0)]
            ELSE Put(B[i - 1], db[i].money_type,
                     balance_step(Get(B[i - 1], db[i].money_type, Fin(0)), db[i]))
    IN  B[Len(db)]

\* a sort that puts a transaction before the earlier ones of the same time
sort_by_datetime_unstable(db) ==
    LET Insert(sorted, t) ==
            LET k == Cardinality({j \in 1..Len(sorted) : sorted[j].datetime < t.datetime})
            IN  SubSeq(sorted, 1, k) \o <<t>> \o SubSeq(sorted, k + 1, Len(sorted))
        S[i \in 0..Len(db)] == IF i = 0 THEN <<>> ELSE Insert(S[i - 1], db[i])
    IN  S[Len(db)]

\* sorted_tx.sort_by_key(|t| t.datetime): stable, equal keys keep their order
sort_by_datetime(db) ==
    LET Insert(sorted, t) ==
            LET k == Cardinality({j \in 1..Len(sorted) : sorted[j].datetime <= t.datetime})
            IN  SubSeq(sorted, 1, k) \o <<t>> \o SubSeq(sorted, k + 1, Len(sorted))
        S[i \in 0..Len(db)] == IF i = 0 THEN <<>> ELSE Insert(S[i - 1], db[i])
    IN  S[Len(db)]

\* the match on t.direction with Returned taken off the balance
timeline_step_returned_off(balance, t) ==
    CASE t.direction = LentDir -> FSub(balance, t.amount)
      [] t.direction = BorrowedDir -> FAdd(balance, t.amount)
      [] t.direction = ReturnedDir -> FSub(balance, t.amount)
      [] t.direction = RepaidDir -> FSub(balance, t.amount)

\* generate_balance_timeline: the match on t.direction
timeline_step(balance, t) ==
    CASE t.direction = LentDir -> FSub(balance, t.amount)
      [] t.direction = BorrowedDir -> FAdd(balance, t.amount)
      [] t.direction = ReturnedDir -> FAdd(balance, t.amount)
      [] t.direction = RepaidDir -> FSub(balance, t.amount)

\* generate_balance_timeline: per currency the samples [idx, balance], idx
\* the 0-based position in the sorted copy
generate_balance_timeline(db) ==
    LET sorted_tx == sort_by_datetime(db)
        R[i \in 0..Len(sorted_tx)] ==
            IF i = 0 THEN [balances |-> <<>>, result |-> <<>>]
            ELSE LET t == sorted_tx[i]
                     balance == timeline_step(Get(R[i - 1].balances, t.money_type, Fin(0)), t)
                 IN  [balances |-> Put(R[i - 1].balances, t.money_type, balance),
                      result |-> Put(R[i - 1].result, t.money_type,
                                     Append(Get(R[i - 1].result, t.money_type, <<>>),
                                            <<i - 1, balance>>))]
    IN  R[Len(sorted_tx)].result

\* PersonStats::default()
PersonStatsDefault ==
    [lent |-> Fin(0), borrowed |-> Fin(0), returned |-> Fin(0), repaid |-> Fin(0),
     outstanding |-> Fin(0), lent_transactions |-> <<>>, return_transactions |-> <<>>,
     currencies |-> {}, deadline_changes_count |-> 0]

\* a match on t.direction in which a repayment lowers outstanding
person_step_repaid_off(stats, t) ==
    CASE t.direction = LentDir ->
            [stats EXCEPT !.lent = FAdd(@, t.amount),
                          !.outstanding = FAdd(@, t.amount),
                          !.lent_transactions = Append(@, t)]
      [] t.direction = BorrowedDir ->
            [stats EXCEPT !.borrowed = FAdd(@, t.amount),
                          !.outstanding = FSub(@, t.amount)]
      [] t.direction = ReturnedDir ->
            [stats EXCEPT !.returned = FAdd(@, t.amount),
                          !.outstanding = FSub(@, t.amount),
                          !.return_transactions = Append(@, t)]
      [] t.direction = RepaidDir ->
            [stats EXCEPT !.repaid = FAdd(@, t.amount),
                          !.outstanding = FSub(@, t.amount)]

\* the match on t.direction with Returned added to outstanding
person_step_returned_on(stats, t) ==
    CASE t.direction = LentDir ->
            [stats EXCEPT !.lent = FAdd(@, t.amount),
                          !.outstanding = FAdd(@, t.amount),
                          !.lent_transactions = Append(@, t)]
      [] t.direction = BorrowedDir ->
            [stats EXCEPT !.borrowed = FAdd(@, t.amount),
                          !.outstanding = FSub(@, t.amount)]
      [] t.direction = ReturnedDir ->
            [stats EXCEPT !.returned = FAdd(@, t.amount),
                          !.outstanding = FAdd(@, t.amount),
                          !.return_transactions = Append(@, t)]
      [] t.direction = RepaidDir ->
            [stats EXCEPT !.repaid = FAdd(@, t.amount),
                          !.outstanding = FAdd(@, t.amount)]

\* calculate_person_stats: the match on t.direction
person_step(stats, t) ==
    CASE t.direction = LentDir ->
            [stats EXCEPT !.lent = FAdd(@, t.amount),
                          !.outstanding = FAdd(@, t.amount),
                          !.lent_transactions = Append(@, t)]
      [] t.direction = BorrowedDir ->
            [stats EXCEPT !.borrowed = FAdd(@, t.amount),
                          !.outstanding = FSub(@, t.amount)]
      [] t.direction = ReturnedDir ->
            [stats EXCEPT !.returned = FAdd(@, t.amount),
                          !.outstanding = FSub(@, t.amount),
                          !.return_transactions = Append(@, t)]
      [] t.direction = RepaidDir ->
            [stats EXCEPT !.repaid = FAdd(@, t.amount),
                          !.outstanding = FAdd(@, t.amount)]

\* calculate_person_stats: one PersonStats per counterparty name
calculate_person_stats(db) ==
    LET P[i \in 0..Len(db)] ==
            IF i = 0 THEN <<>>
            ELSE LET t == db[i]
                     stats == Get(P[i - 1], t.person, PersonStatsDefault)
                     counted == [stats EXCEPT
                                    !.currencies = @ \cup {t.money_type},
                                    !.deadline_changes_count = @ + Len(t.deadline_changes)]
                 IN  Put(P[i - 1], t.person, person_step(counted, t))
    IN  P[Len(db)]

\* NaiveDateTime::date(): datetime counts half days, two to a calendar day
date(datetime) == datetime \div 2

\* Option::None of the two per-person figures
NotComputable == [some |-> FALSE, total_days |-> 0, count |-> 0, kept |-> 0, total |-> 0]

\* the loan a return is matched with, taken as the earliest eligible one
matched_loan_earliest(lent, ret) ==
    LET eligible == {i \in 1..Len(lent) : lent[i].datetime <= ret.datetime}
    IN  IF eligible = {} THEN 0
        ELSE CHOOSE i \in eligible :
                \A j \in eligible :
                    \/ lent[j].datetime > lent[i].datetime
                    \/ (lent[j].datetime = lent[i].datetime /\ j >= i)

\* calculate_avg_return_time: lent.iter().filter(|l| l.datetime <=
\* ret.datetime).max_by_key(|l| l.datetime), the last of the greatest; 0 for None
matched_loan(lent, ret) ==
    LET eligible == {i \in 1..Len(lent) : lent[i].datetime <= ret.datetime}
    IN  IF eligible = {} THEN 0
        ELSE CHOOSE i \in eligible :
                \A j \in eligible :
                    \/ lent[j].datetime < lent[i].datetime
                    \/ (lent[j].datetime = lent[i].datetime /\ j <= i)

\* calculate_avg_return_time: Some(total_days as f64 / count as f64), held
\* as the two integers of the quotient, or None
calculate_avg_return_time(lent, returned) ==
    IF lent = <<>> \/ returned = <<>> THEN NotComputable
    ELSE LET A[k \in 0..Len(returned)] ==
                 IF k = 0 THEN [total_days |-> 0, count |-> 0]
                 ELSE LET ret == returned[k]
                          m == matched_loan(lent, ret)
                      IN  IF m = 0 THEN A[k - 1]
                          ELSE [total_days |-> A[k - 1].total_days
                                                 + (date(ret.datetime) - date(lent[m].datetime)),
                                count |-> A[k - 1].count + 1]
             acc == A[Len(returned)]
         IN  IF acc.count > 0
             THEN [NotComputable EXCEPT !.some = TRUE, !.total_days = acc.total_days,
                                        !.count = acc.count]
             ELSE NotComputable

\* the return a promise is judged by, taken as the latest eligible one
first_return_latest(lent_tx, returned) ==
    LET eligible == {i \in 1..Len(returned) : returned[i].datetime >= lent_tx.datetime}
    IN  IF eligible = {} THEN 0
        ELSE CHOOSE i \in eligible :
                \A j \in eligible :
                    \/ returned[j].datetime < returned[i].datetime
                    \/ (returned[j].datetime = returned[i].datetime /\ j <= i)

\* calculate_promise_keeping_rate: returned.iter().filter(|r| r.datetime >=
\* lent_tx.datetime).min_by_key(|r| r.datetime), the first of the least; 0 for None
first_return(lent_tx, returned) ==
    LET eligible == {i \in 1..Len(returned) : returned[i].datetime >= lent_tx.datetime}
    IN  IF eligible = {} THEN 0
        ELSE CHOOSE i \in eligible :
                \A j \in eligible :
                    \/ returned[j].datetime > returned[i].datetime
                    \/ (returned[j].datetime = returned[i].datetime /\ j >= i)

\* a promise-keeping rate judged against the date the loan was first given,
\* the old_date of the first entry of its deadline history
calculate_promise_keeping_rate_original(lent, returned) ==
    LET lent_with_expected == SelectSeq(lent, LAMBDA t : t.expected_return_date # NoDate)
        K[k \in 0..Len(lent_with_expected)] ==
            IF k = 0 THEN [kept |-> 0, total |-> 0]
            ELSE LET lent_tx == lent_with_expected[k]
                     r == first_return(lent_tx, returned)
                     expected_date == IF lent_tx.deadline_changes = <<>>
                                      THEN lent_tx.expected_return_date
                                      ELSE lent_tx.deadline_changes[1].old_date
                 IN  [kept |-> K[k - 1].kept
                                  + (IF r # 0 /\ date(returned[r].datetime) <= expected_date
                                     THEN 1 ELSE 0),
                      total |-> K[k - 1].total + 1]
        acc == K[Len(lent_with_expected)]
    IN  IF lent_with_expected = <<>> THEN NotComputable
        ELSE IF acc.total > 0
             THEN [NotComputable EXCEPT !.some = TRUE, !.kept = acc.kept, !.total = acc.total]
             ELSE NotComputable

\* a promise-keeping rate in which a return judges one loan only: the
\* earliest return not before the loan that no earlier loan has used
calculate_promise_keeping_rate_consuming(lent, returned) ==
    LET lent_with_expected == SelectSeq(lent, LAMBDA t : t.expected_return_date # NoDate)
        K[k \in 0..Len(lent_with_expected)] ==
            IF k = 0 THEN [kept |-> 0, total |-> 0, used |-> {}]
            ELSE LET lent_tx == lent_with_expected[k]
                     free == {i \in 1..Len(returned) :
                                 /\ i \notin K[k - 1].used
                                 /\ returned[i].datetime >= lent_tx.datetime}
                     r == IF free = {} THEN 0
                          ELSE CHOOSE i \in free :
                                  \A j \in free :
                                      \/ returned[j].datetime > returned[i].datetime
                                      \/ (returned[j].datetime = returned[i].datetime /\ j >= i)
                 IN  [kept |-> K[k - 1].kept
                                  + (IF r # 0 /\ date(returned[r].datetime)
                                                    <= lent_tx.expected_return_date
                                     THEN 1 ELSE 0),
                      total |-> K[k - 1].total + 1,
                      used |-> K[k - 1].used \cup {r}]
        acc == K[Len(lent_with_expected)]
    IN  IF lent_with_expected = <<>> THEN NotComputable
        ELSE [NotComputable EXCEPT !.some = TRUE, !.kept = acc.kept, !.total = acc.total]

\* calculate_promise_keeping_rate: Some((promises_kept, total_promises)) or None
calculate_promise_keeping_rate(lent, returned) ==
    LET lent_with_expected == SelectSeq(lent, LAMBDA t : t.expected_return_date # NoDate)
        K[k \in 0..Len(lent_with_expected)] ==
            IF k = 0 THEN [kept |-> 0, total |-> 0]
            ELSE LET lent_tx == lent_with_expected[k]
                     r == first_return(lent_tx, returned)
                 IN  [kept |-> K[k - 1].kept
                                  + (IF r # 0 /\ date(returned[r].datetime)
                                                    <= lent_tx.expected_return_date
                                     THEN 1 ELSE 0),
                      total |-> K[k - 1].total + 1]
        acc == K[Len(lent_with_expected)]
    IN  IF lent_with_expected = <<>> THEN NotComputable
        ELSE IF acc.total > 0
             THEN [NotComputable EXCEPT !.some = TRUE, !.kept = acc.kept, !.total = acc.total]
             ELSE NotComputable

\* draw_person_card: the two figures shown when stats.lent > 0.0
draw_person_card(stats) ==
    IF FGtZero(stats.lent)
    THEN [drawn |-> TRUE,
          avg_return |-> calculate_avg_return_time(stats.lent_transactions,
                                                   stats.return_transactions),
          promises |-> calculate_promise_keeping_rate(stats.lent_transactions,
                                                      stats.return_transactions)]
    ELSE [drawn |-> FALSE, avg_return |-> NotComputable, promises |-> NotComputable]

\* show_analysis: returns early on an empty ledger, else computes the
\* balances, for the chart the timeline, and the statistics and card of
\* each person
ShowAnalysis ==
    /\ pc = "idle"
    /\ analysis' = IF ledger = <<>> THEN NoAnalysis
                   ELSE LET person_data == calculate_person_stats(ledger)
                        IN  [shown |-> TRUE,
                             balances |-> balances_by_currency(ledger),
                             timeline |-> generate_balance_timeline(ledger),
                             people |-> person_data,
                             cards |-> [p \in DOMAIN person_data |->
                                           draw_person_card(person_data[p])]]
    /\ UNCHANGED <<ledger, uiVars, pc, caller, saveResult, fsVars, faults, clockVars,
                   histVars>>
    /\ UNCHANGED formVars
    /\ UNCHANGED paid_back
    /\ UNCHANGED storeVars

\* the positions of the group's transactions, the newest first
Positions_newest_first(db, key, dirs) ==
    LET found == SelectSeq([i \in 1..Len(db) |-> i],
                           LAMBDA i : /\ db[i].person = key[1] /\ db[i].money_type = key[2]
                                      /\ db[i].direction \in dirs)
    IN  [k \in 1..Len(found) |-> found[Len(found) + 1 - k]]

\* the positions of the group's transactions of the directions dirs, in
\* ledger order
Positions(db, key, dirs) ==
    SelectSeq([i \in 1..Len(db) |-> i],
              LAMBDA i : /\ db[i].person = key[1] /\ db[i].money_type = key[2]
                         /\ db[i].direction \in dirs)

\* iter().map(|(_, amount, _)| *amount).sum::<f64>()
sum_f64(db, positions) ==
    LET S[i \in 0..Len(positions)] ==
            IF i = 0 THEN Fin(0) ELSE FAdd(S[i - 1], db[positions[i]].amount)
    IN  S[Len(positions)]

\* the loop body that goes on to the next debt when one does not fit
paid_back_step_skip(st, idx, amount) ==
    IF st.stopped THEN st
    ELSE IF FGe(st.remaining_returns, amount)
         THEN [st EXCEPT !.paid_back = @ \cup {idx},
                         !.remaining_returns = FSub(@, amount)]
         ELSE st

\* calculate_paid_back_transactions: the body of the loop over lent_borrowed
paid_back_step(st, idx, amount) ==
    IF st.stopped THEN st
    ELSE IF FGe(st.remaining_returns, amount)
         THEN [st EXCEPT !.paid_back = @ \cup {idx},
                         !.remaining_returns = FSub(@, amount)]
         ELSE [st EXCEPT !.stopped = TRUE]

\* the keys of person_debts
DebtGroups(db) == {<<db[i].person, db[i].money_type>> : i \in 1..Len(db)}

\* calculate_paid_back_transactions: the positions marked in one group
paid_back_of_group(db, key) ==
    LET lent_borrowed == Positions(db, key, {LentDir, BorrowedDir})
        returns == Positions(db, key, {ReturnedDir, RepaidDir})
        L[k \in 0..Len(lent_borrowed)] ==
            IF k = 0
            THEN [remaining_returns |-> sum_f64(db, returns), paid_back |-> {},
                  stopped |-> FALSE]
            ELSE paid_back_step(L[k - 1], lent_borrowed[k], db[lent_borrowed[k]].amount)
    IN  L[Len(lent_borrowed)].paid_back

\* calculate_paid_back_transactions: positions in the ledger (1-based here,
\* 0-based in the program)
calculate_paid_back_transactions(db) ==
    UNION {paid_back_of_group(db, key) : key \in DebtGroups(db)}

\* show_transactions: returns early on an empty ledger, else marks the
\* paid-back transactions of the list
ShowTransactions ==
    /\ pc = "idle"
    /\ paid_back' = IF ledger = <<>> THEN NoMarks
                    ELSE [shown |-> TRUE,
                          indices |-> calculate_paid_back_transactions(ledger)]
    /\ UNCHANGED <<ledger, uiVars, pc, caller, saveResult, fsVars, faults, clockVars,
                   histVars>>
    /\ UNCHANGED formVars
    /\ UNCHANGED analysis
    /\ UNCHANGED storeVars

(* --------------------------- specifications ---------------------------- *)

\* the steps of Database::save, with the failures of each step
SaveSteps ==
    \/ SaveMkdir
    \/ SaveMkdirFail
    \/ SavePreBackup
    \/ SavePreBackupFail
    \/ SaveWritePrimary
    \/ SaveWritePrimaryFail
    \/ SavePostBackup
    \/ SavePostBackupFail
    \/ SaveCleanup
    \/ SaveCleanupRemoveFail
    \/ SaveCleanupFail
    \/ SaveReturn

\* Storage: the ledger store under a moving clock, crashes, restarts and
\* damage to the primary file; the form adds plain loans
Next ==
    \/ Load
    \/ LoadCopyFail
    \/ AppDefault
    \/ Quit
    \/ Tick
    \/ ClockBack
    \/ \E a \in {"1", "inf"} : AddClick("ann", a, "GEL", 0, 0, "", 0)
    \/ SaveSteps
    \/ Crash
    \/ Damage

Spec == Init /\ [][Next]_vars

\* Storage with finite amounts only: every file save writes parses, and a
\* file that does not parse comes from a failed write, a crash or damage
NextFinite ==
    \/ Load
    \/ AppDefault
    \/ Quit
    \/ Tick
    \/ ClockBack
    \/ AddClick("ann", "1", "GEL", 0, 0, "", 0)
    \/ SaveSteps
    \/ Crash
    \/ Damage

SpecFinite == Init /\ [][NextFinite]_vars

\* the steps of a Database::save in which no step fails
SaveOkSteps ==
    \/ SaveMkdir
    \/ SavePreBackup
    \/ SaveWritePrimary
    \/ SavePostBackup
    \/ SaveCleanup
    \/ SaveReturn

\* the texts typed into the Person and Amount fields of the form
FormNames == {"ann", " ann", " "}
FormAmounts == {"1", "0", "-1", "x", "nan"}

\* Add: one run of the program from an empty store with the add form, given
\* valid and invalid input
NextAdd ==
    \/ Load
    \/ AppDefault
    \/ \E d \in Direction : SetDirection(d)
    \/ ToggleSetDate
    \/ \E person_name \in FormNames, amount \in FormAmounts :
          AddClick(person_name, amount, "GEL", 0, 1, "", 0)
    \/ SaveOkSteps

SpecAdd == Init /\ [][NextAdd]_vars

\* Form: one run of the program from an empty store with the add form, given
\* valid and invalid input, and the Change Deadline window
NextForm ==
    \/ Load
    \/ AppDefault
    \/ \E d \in Direction : SetDirection(d)
    \/ ToggleSetDate
    \/ \E person_name \in FormNames, amount \in FormAmounts :
          AddClick(person_name, amount, "GEL", 0, 1, "", 0)
    \/ SaveOkSteps
    \/ \E i \in 1..MaxTx : DeadlineOpen(i)
    \/ \E d \in {1, 2} : DeadlinePick(d)
    \/ DeadlineSave
    \/ DeadlineCancel

SpecForm == Init /\ [][NextForm]_vars

\* Deadlines: one run of the program from an empty store in which two
\* transactions are added and the deadline of the first is changed; the
\* clock moves between the user's operations, a save takes less than a second
NextDeadlines ==
    \/ Load
    \/ AppDefault
    \/ (pc = "idle" /\ Tick)
    \/ (pc = "idle" /\ ClockBack)
    \/ ToggleSetDate
    \/ (Len(ledger) < 2 /\ AddClick("ann", "1", "GEL", 0, 1, "", 0))
    \/ SaveOkSteps
    \/ DeadlineOpen(1)
    \/ \E d \in {1, 2} : DeadlinePick(d)
    \/ DeadlineSave
    \/ DeadlineCancel

SpecDeadlines == Init /\ [][NextDeadlines]_vars

\* Edits: one run of the program from an empty store with every operation
\* of the user that touches the ledger: add, deadline change, attachment
\* change and removal, on at most two transactions
NextEdits ==
    \/ Load
    \/ AppDefault
    \/ ToggleSetDate
    \/ \E d \in {LentDir, ReturnedDir} : SetDirection(d)
    \/ (Len(ledger) < 2 /\ AddClick("ann", "1", "GEL", 0, 1, "", 0))
    \/ SaveOkSteps
    \/ \E i \in 1..2 : DeadlineOpen(i)
    \/ DeadlinePick(2)
    \/ DeadlineSave
    \/ DeadlineCancel
    \/ \E i \in 1..2 : EditOpen(i)
    \/ \E source \in {"a.png", ".."}, written \in {1, 2} : EditChange(source, written)
    \/ EditRemove
    \/ EditSave
    \/ EditCancel

SpecEdits == Init /\ [][NextEdits]_vars

\* Failures: one run of the program from an empty store in which every step
\* of a save can fail, for each of the three handlers that call save; the
\* clock moves between the user's operations
NextFailures ==
    \/ Load
    \/ AppDefault
    \/ (pc = "idle" /\ Tick)
    \/ ToggleSetDate
    \/ (Len(ledger) < 2 /\ AddClick("ann", "1", "GEL", 0, 1, "", 0))
    \/ SaveSteps
    \/ DeadlineOpen(1)
    \/ DeadlinePick(2)
    \/ DeadlineSave
    \/ DeadlineCancel
    \/ EditOpen(1)
    \/ EditSave
    \/ EditCancel

SpecFailures == Init /\ [][NextFailures]_vars

\* the paths given to copy_attachment_to_storage: two files of the user, a
\* path without a file name and a path to no file; and the bytes a copy
\* gets to write, all of a file or its first one
Sources == {"a.png", "notes", "..", "gone.png"}
Written == {1, 2}

\* Attachments: copy_attachment_to_storage called again and again while the
\* clock moves on, the program idle on an empty ledger
InitAttach ==
    /\ ledger = <<>>
    /\ status_message = ""
    /\ editing_deadline_for = 0
    /\ temp_new_deadline = 0
    /\ edit_transaction_index = 0
    /\ direction = LentDir
    /\ has_expected_return = FALSE
    /\ pc = "idle"
    /\ caller = ""
    /\ saveResult = ""
    /\ primary = Absent
    /\ backupDir = FALSE
    /\ backups = <<>>
    /\ now = 0
    /\ faults = 0
    /\ clockBack = FALSE
    /\ loadPath = "default"
    /\ atStart = NoSave
    /\ stepFailed = FALSE
    /\ okSaves = 0
    /\ durable = None
    /\ interrupted = None
    /\ analysis = NoAnalysis
    /\ paid_back = NoMarks
    /\ files = SourceFiles
    /\ copied = NoCopy

NextAttach ==
    \/ Tick
    \/ \E source \in Sources, written \in Written : CopyAttachment(source, written)

SpecAttach == InitAttach /\ [][NextAttach]_vars

\* Load: Database::load started on the storage states of StorageL, which a
\* run of the program, a crash or the user can leave behind.  load does not
\* read modification times; the files are listed in the order of their names.
AnnLent(amount) == Transaction("ann", amount, "GEL", LentDir, 0, NoDate, NoPath, <<>>)

\* ledgers of finite amounts up to MaxTx transactions, and one ledger with
\* a non-finite amount, which serialises to null
LedgersL ==
    {[i \in 1..n |-> AnnLent(Fin(1))] : n \in 0..MaxTx} \cup {<<AnnLent(PosInf)>>}

ContentsL == {to_string_pretty(db) : db \in LedgersL} \cup {Garbage}

\* the directories holding a file for each name of S, in the order of names
RECURSIVE DirsL(_)
DirsL(S) ==
    IF S = {} THEN {<<>>}
    ELSE LET n == MaxOf(S)
         IN  {Append(d, BackupFile(n, c)) : d \in DirsL(S \ {n}), c \in ContentsL}

StorageL == UNION {DirsL(S) : S \in SUBSET (0..MaxNow)}

InitLoad ==
    /\ ledger = <<>>
    /\ status_message = ""
    /\ editing_deadline_for = 0
    /\ temp_new_deadline = 0
    /\ edit_transaction_index = 0
    /\ direction = LentDir
    /\ has_expected_return = FALSE
    /\ pc = "down"
    /\ caller = ""
    /\ saveResult = ""
    /\ primary \in ContentsL \cup {Absent}
    /\ backupDir \in BOOLEAN
    /\ backups \in IF backupDir THEN StorageL ELSE {<<>>}
    /\ now = 0
    /\ faults = 0
    /\ clockBack = FALSE
    /\ loadPath = "none"
    /\ atStart = NoSave
    /\ stepFailed = FALSE
    /\ okSaves = 0
    /\ durable = None
    /\ interrupted = None
    /\ analysis = NoAnalysis
    /\ paid_back = NoMarks
    /\ files = SourceFiles
    /\ copied = NoCopy

NextLoad ==
    \/ Load
    \/ LoadCopyFail

SpecLoad == InitLoad /\ [][NextLoad]_vars

\* Foreign files: the program started on a backup directory into which the
\* user has put zzz.json (a ledger of another year, or a file that is no
\* ledger) and zzz.txt before the backups the program wrote; then loans are
\* added while the clock moves on
ForeignL == {<<>>, <<AnnLent(Fin(2))>>}
ForeignContents == {to_string_pretty(db) : db \in ForeignL} \cup {Garbage}

ForeignDirs ==
    {<<BackupFile(ZzzJson, c), BackupFile(ZzzTxt, Garbage)>> : c \in ForeignContents}
    \cup {<<BackupFile(ZzzTxt, Garbage), BackupFile(ZzzJson, c)>> : c \in ForeignContents}

OwnDirs ==
    {<<>>, <<BackupFile(0, to_string_pretty(<<AnnLent(Fin(1))>>))>>,
     <<BackupFile(0, Garbage)>>}

InitForeign ==
    /\ ledger = <<>>
    /\ status_message = ""
    /\ editing_deadline_for = 0
    /\ temp_new_deadline = 0
    /\ edit_transaction_index = 0
    /\ direction = LentDir
    /\ has_expected_return = FALSE
    /\ pc = "down"
    /\ caller = ""
    /\ saveResult = ""
    /\ primary \in {Absent, Garbage, to_string_pretty(<<AnnLent(Fin(1))>>)}
    /\ backupDir = TRUE
    /\ backups \in {f \o d : f \in ForeignDirs, d \in OwnDirs}
    /\ now = 0
    /\ faults = 0
    /\ clockBack = FALSE
    /\ loadPath = "none"
    /\ atStart = NoSave
    /\ stepFailed = FALSE
    /\ okSaves = 0
    /\ durable = None
    /\ interrupted = None
    /\ analysis = NoAnalysis
    /\ paid_back = NoMarks
    /\ files = SourceFiles
    /\ copied = NoCopy

NextForeign ==
    \/ Load
    \/ AppDefault
    \/ (pc = "idle" /\ Tick)
    \/ AddClick("ann", "1", "GEL", 0, 0, "", 0)
    \/ SaveOkSteps

SpecForeign == InitForeign /\ [][NextForeign]_vars

\* Analytics: the Analysis tab over the ledgers of at most MaxLedger
\* transactions; GEL transactions vary in amount, direction and time, next
\* to one USD transaction
TxA ==
    {Transaction("ann", Fin(1), "GEL", d, dt, NoDate, NoPath, <<>>) :
        d \in Direction, dt \in {0, 1}}
    \cup {Transaction("ann", Fin(8), "GEL", d, 0, NoDate, NoPath, <<>>) : d \in Direction}
    \cup {Transaction("bob", Fin(2), "USD", BorrowedDir, 0, NoDate, NoPath, <<>>)}

LedgersA == UNION {[1..n -> TxA] : n \in 0..MaxLedger}

InitAnalytics ==
    /\ ledger \in LedgersA
    /\ status_message = ""
    /\ editing_deadline_for = 0
    /\ temp_new_deadline = 0
    /\ edit_transaction_index = 0
    /\ direction = LentDir
    /\ has_expected_return = FALSE
    /\ pc = "idle"
    /\ caller = ""
    /\ saveResult = ""
    /\ primary = Absent
    /\ backupDir = FALSE
    /\ backups = <<>>
    /\ now = 0
    /\ faults = 0
    /\ clockBack = FALSE
    /\ loadPath = "default"
    /\ atStart = NoSave
    /\ stepFailed = FALSE
    /\ okSaves = 0
    /\ durable = None
    /\ interrupted = None
    /\ analysis = NoAnalysis
    /\ paid_back = NoMarks
    /\ files = SourceFiles
    /\ copied = NoCopy

NextAnalytics == ShowAnalysis

SpecAnalytics == InitAnalytics /\ [][NextAnalytics]_vars

\* Outstanding: the Analysis tab over ledgers in which two counterparties
\* share a currency and one counterparty uses two currencies, so that the
\* per-person and the per-currency scans group the amounts differently
TxO ==
    {Transaction("ann", Fin(a), "GEL", d, 0, NoDate, NoPath, <<>>) :
        a \in {1, 8}, d \in Direction}
    \cup {Transaction("bob", Fin(2), "GEL", LentDir, 0, NoDate, NoPath, <<>>),
          Transaction("ann", Fin(1), "USD", LentDir, 0, NoDate, NoPath, <<>>)}

LedgersO == UNION {[1..n -> TxO] : n \in 0..MaxLedger}

InitOutstanding ==
    /\ ledger \in LedgersO
    /\ status_message = ""
    /\ editing_deadline_for = 0
    /\ temp_new_deadline = 0
    /\ edit_transaction_index = 0
    /\ direction = LentDir
    /\ has_expected_return = FALSE
    /\ pc = "idle"
    /\ caller = ""
    /\ saveResult = ""
    /\ primary = Absent
    /\ backupDir = FALSE
    /\ backups = <<>>
    /\ now = 0
    /\ faults = 0
    /\ clockBack = FALSE
    /\ loadPath = "default"
    /\ atStart = NoSave
    /\ stepFailed = FALSE
    /\ okSaves = 0
    /\ durable = None
    /\ interrupted = None
    /\ analysis = NoAnalysis
    /\ paid_back = NoMarks
    /\ files = SourceFiles
    /\ copied = NoCopy

NextOutstanding == ShowAnalysis

SpecOutstanding == InitOutstanding /\ [][NextOutstanding]_vars

\* Transactions: the Transactions tab over the ledgers of at most MaxLedger
\* transactions; ann's GEL transactions vary in amount and direction, next
\* to a transaction of another person and one in another currency
TxT ==
    {Transaction("ann", Fin(a), "GEL", d, 0, NoDate, NoPath, <<>>) :
        a \in {1, 12}, d \in Direction}
    \cup {Transaction("bob", Fin(1), "GEL", LentDir, 0, NoDate, NoPath, <<>>),
          Transaction("ann", Fin(12), "USD", ReturnedDir, 0, NoDate, NoPath, <<>>)}

LedgersT == UNION {[1..n -> TxT] : n \in 0..MaxLedger}

InitTransactions ==
    /\ ledger \in LedgersT
    /\ status_message = ""
    /\ editing_deadline_for = 0
    /\ temp_new_deadline = 0
    /\ edit_transaction_index = 0
    /\ direction = LentDir
    /\ has_expected_return = FALSE
    /\ pc = "idle"
    /\ caller = ""
    /\ saveResult = ""
    /\ primary = Absent
    /\ backupDir = FALSE
    /\ backups = <<>>
    /\ now = 0
    /\ faults = 0
    /\ clockBack = FALSE
    /\ loadPath = "default"
    /\ atStart = NoSave
    /\ stepFailed = FALSE
    /\ okSaves = 0
    /\ durable = None
    /\ interrupted = None
    /\ analysis = NoAnalysis
    /\ paid_back = NoMarks
    /\ files = SourceFiles
    /\ copied = NoCopy

\* People: the Analysis tab over the ledgers of at most MaxLedger
\* transactions; ann's loans vary in time and expected date, her returns in
\* time and amount, next to a return of another person
TxP ==
    {Transaction("ann", Fin(1), "GEL", LentDir, dt, e, NoPath, <<>>) :
        dt \in {1, 2}, e \in {NoDate, 0, 1}}
    \cup {Transaction("ann", Fin(1), "GEL", ReturnedDir, dt, NoDate, NoPath, <<>>) :
            dt \in {0, 1}}
    \cup {Transaction("ann", Fin(8), "GEL", ReturnedDir, dt, NoDate, NoPath, <<>>) :
            dt \in {3, 4}}
    \cup {Transaction("bob", Fin(1), "GEL", ReturnedDir, 1, NoDate, NoPath, <<>>)}

LedgersP == UNION {[1..n -> TxP] : n \in 0..MaxLedger}

InitPeople ==
    /\ ledger \in LedgersP
    /\ status_message = ""
    /\ editing_deadline_for = 0
    /\ temp_new_deadline = 0
    /\ edit_transaction_index = 0
    /\ direction = LentDir
    /\ has_expected_return = FALSE
    /\ pc = "idle"
    /\ caller = ""
    /\ saveResult = ""
    /\ primary = Absent
    /\ backupDir = FALSE
    /\ backups = <<>>
    /\ now = 0
    /\ faults = 0
    /\ clockBack = FALSE
    /\ loadPath = "default"
    /\ atStart = NoSave
    /\ stepFailed = FALSE
    /\ okSaves = 0
    /\ durable = None
    /\ interrupted = None
    /\ analysis = NoAnalysis
    /\ paid_back = NoMarks
    /\ files = SourceFiles
    /\ copied = NoCopy

NextPeople == ShowAnalysis

SpecPeople == InitPeople /\ [][NextPeople]_vars

NextTransactions == ShowTransactions

SpecTransactions == InitTransactions /\ [][NextTransactions]_vars

\* Marks: the Transactions tab shown again and again while transactions are
\* added to the ledger and the deadline and the attachment of the first one
\* are edited; the amounts are such that sums are rounded, and the infinite
\* one is the amount the form accepts for the text inf
TxM ==
    {Transaction("ann", Fin(1), "GEL", LentDir, 0, 1, NoPath, <<>>),
     Transaction("ann", Fin(12), "GEL", LentDir, 0, NoDate, NoPath, <<>>),
     Transaction("ann", Fin(1), "GEL", ReturnedDir, 0, NoDate, NoPath, <<>>),
     Transaction("ann", Fin(12), "GEL", ReturnedDir, 0, NoDate, NoPath, <<>>),
     Transaction("ann", Fin(1), "GEL", RepaidDir, 0, NoDate, NoPath, <<>>),
     Transaction("ann", PosInf, "GEL", LentDir, 0, NoDate, NoPath, <<>>),
     Transaction("ann", PosInf, "GEL", ReturnedDir, 0, NoDate, NoPath, <<>>),
     Transaction("bob", Fin(12), "GEL", ReturnedDir, 0, NoDate, NoPath, <<>>),
     Transaction("ann", Fin(12), "USD", ReturnedDir, 0, NoDate, NoPath, <<>>)}

LedgersM == UNION {[1..n -> TxM] : n \in 0..(MaxLedger - 1)}

InitMarks ==
    /\ ledger \in LedgersM
    /\ status_message = ""
    /\ editing_deadline_for = 0
    /\ temp_new_deadline = 0
    /\ edit_transaction_index = 0
    /\ direction = LentDir
    /\ has_expected_return = FALSE
    /\ pc = "idle"
    /\ caller = ""
    /\ saveResult = ""
    /\ primary = Absent
    /\ backupDir = FALSE
    /\ backups = <<>>
    /\ now = 0
    /\ faults = 0
    /\ clockBack = FALSE
    /\ loadPath = "default"
    /\ atStart = NoSave
    /\ stepFailed = FALSE
    /\ okSaves = 0
    /\ durable = None
    /\ interrupted = None
    /\ analysis = NoAnalysis
    /\ paid_back = NoMarks
    /\ files = SourceFiles
    /\ copied = NoCopy

\* Database::add_transaction called with transaction
AddTransaction(transaction) ==
    /\ pc = "idle"
    /\ Len(ledger) < MaxLedger
    /\ ledger' = add_transaction(ledger, transaction)
    /\ UNCHANGED <<uiVars, pc, caller, saveResult, fsVars, faults, clockVars, histVars>>
    /\ UNCHANGED formVars
    /\ UNCHANGED viewVars
    /\ UNCHANGED storeVars

NextMarks ==
    \/ ShowTransactions
    \/ \E transaction \in TxM : AddTransaction(transaction)
    \/ DeadlineOpen(1)
    \/ DeadlinePick(2)
    \/ DeadlineSave
    \/ DeadlineCancel
    \/ SaveOkSteps
    \/ EditOpen(1)
    \/ EditChange("a.png", 2)
    \/ EditCancel

SpecMarks == InitMarks /\ [][NextMarks]_vars

\* Promises: the Analysis tab shown before and after the deadline of the
\* first transaction is changed; loans with and without an expected date,
\* returns on the day of a loan and on the day after, a second counterparty
TxQ ==
    {Transaction("ann", Fin(1), "GEL", LentDir, 0, 0, NoPath, <<>>),
     Transaction("ann", Fin(1), "GEL", LentDir, 2, 1, NoPath, <<>>),
     Transaction("ann", Fin(1), "GEL", LentDir, 0, NoDate, NoPath, <<>>),
     Transaction("ann", Fin(1), "GEL", ReturnedDir, 0, NoDate, NoPath, <<>>),
     Transaction("ann", Fin(1), "GEL", ReturnedDir, 2, NoDate, NoPath, <<>>),
     Transaction("bob", Fin(1), "GEL", LentDir, 0, 1, NoPath, <<>>)}

LedgersQ == UNION {[1..n -> TxQ] : n \in 0..MaxLedger}

InitPromises ==
    /\ ledger \in LedgersQ
    /\ status_message = ""
    /\ editing_deadline_for = 0
    /\ temp_new_deadline = 0
    /\ edit_transaction_index = 0
    /\ direction = LentDir
    /\ has_expected_return = FALSE
    /\ pc = "idle"
    /\ caller = ""
    /\ saveResult = ""
    /\ primary = Absent
    /\ backupDir = FALSE
    /\ backups = <<>>
    /\ now = 0
    /\ faults = 0
    /\ clockBack = FALSE
    /\ loadPath = "default"
    /\ atStart = NoSave
    /\ stepFailed = FALSE
    /\ okSaves = 0
    /\ durable = None
    /\ interrupted = None
    /\ analysis = NoAnalysis
    /\ paid_back = NoMarks
    /\ files = SourceFiles
    /\ copied = NoCopy

NextPromises ==
    \/ ShowAnalysis
    \/ DeadlineOpen(1)
    \/ \E d \in 0..1 : DeadlinePick(d)
    \/ DeadlineSave
    \/ DeadlineCancel
    \/ SaveOkSteps

SpecPromises == InitPromises /\ [][NextPromises]_vars

(* ------------------------- storage properties -------------------------- *)

Parses(content) == from_str(content).ok
PrimaryBad == primary.kind = "absent" \/ ~Parses(primary)
GreatestBackup == FileNamed(backups, MaxOf(Names(backups)))
LoadReturns == pc = "down" /\ pc' = "loaded"
SaveReturnedOk == pc = "ret" /\ saveResult = "Ok"

\* C1: a save that returned Ok, followed by a load with no other write to
\* storage in between, yields the ledger that was saved
C1_RoundTrip ==
    (pc = "loaded" /\ durable.some) => ledger = durable.db

\* C2 as stated: when the primary is absent or unparsable and some backup
\* parses, load returns the content of a parsable backup and leaves the
\* primary equal to it
C2_AnyParsableBackup ==
    [][(LoadReturns /\ PrimaryBad
            /\ \E i \in 1..Len(backups) : Parses(backups[i].content))
        => \E i \in 1..Len(backups) :
              /\ Parses(backups[i].content)
              /\ ledger' = from_str(backups[i].content).db
              /\ primary' = backups[i].content]_vars

\* C2 amended: when the primary is absent or unparsable and the backup of
\* the greatest file name parses, load returns that backup's content, and
\* the primary equals it afterwards if the restoring copy succeeded
C2_GreatestBackup ==
    [][(LoadReturns /\ PrimaryBad /\ backups # <<>> /\ Parses(GreatestBackup.content))
        => /\ ledger' = from_str(GreatestBackup.content).db
           /\ faults' = faults => primary' = GreatestBackup.content]_vars

C2_Witness ==
    /\ pc = "loaded"
    /\ loadPath = "backup"
    /\ ledger # <<>>
    /\ Len(backups) >= 2
    /\ primary = GreatestBackup.content

\* C3: load returns in every storage state, and returns the empty ledger
\* when the primary is absent or unparsable and no backup parses
C3_LoadTotal ==
    /\ [](pc = "down" => ENABLED Load)
    /\ [][pc = "down" /\ pc' # "down"
          => /\ pc' = "loaded"
             /\ (PrimaryBad /\ \A i \in 1..Len(backups) : ~Parses(backups[i].content))
                  => ledger' = <<>>]_vars

C3_Witness ==
    /\ pc = "loaded"
    /\ loadPath = "default"
    /\ primary.kind # "absent"
    /\ backups # <<>>
    /\ ledger = <<>>

\* C4: a save that found a primary file and returned Ok leaves two distinct
\* backup files, one with the pre-save content and one with the post-save
\* content
C4_TwoBackups ==
    (SaveReturnedOk /\ atStart.primary.kind # "absent")
        => \E i, j \in 1..Len(backups) :
              /\ i # j
              /\ backups[i].content = atStart.primary
              /\ backups[j].content = to_string_pretty(ledger)

\* C5: after every successful save at most MAX_BACKUPS backup files remain,
\* and exactly MAX_BACKUPS once MAX_BACKUPS + ExtraSaves saves have succeeded
C5_Pruning ==
    SaveReturnedOk
        => /\ Len(backups) <= MAX_BACKUPS
           /\ okSaves >= MAX_BACKUPS + ExtraSaves => Len(backups) = MAX_BACKUPS

\* C6: save never returns Ok after one of its steps failed
C6_FailureSurfaces ==
    SaveReturnedOk => ~stepFailed

\* C7: no step of save changes the in-memory ledger, whether save goes on
\* to return Ok or Err, and the transaction add_transaction appended is
\* there when save is called
C7_SaveKeepsLedger ==
    [][/\ (pc \in SavePcs /\ pc' \in SavePcs \cup {"ret"}) => ledger' = ledger
       /\ (pc = "idle" /\ pc' = "mkdir" /\ caller' = "add")
            => (Len(ledger') = Len(ledger) + 1
                /\ SubSeq(ledger', 1, Len(ledger)) = ledger)]_vars

C7_Witness ==
    /\ pc = "ret"
    /\ saveResult = "Err"
    /\ caller = "add"
    /\ Len(ledger) = 2

C9_CrashTolerance ==
    (pc = "loaded" /\ interrupted.some)
        => ledger \in {interrupted.db, interrupted.writing}

(* ------------------------ analytics properties ------------------------- *)

\* the transactions of currency c were entered in the order of their dates
InEntryOrder(db, c) ==
    \A i, j \in 1..Len(db) :
        (i < j /\ db[i].money_type = c /\ db[j].money_type = c)
            => db[i].datetime <= db[j].datetime

LastSample(samples) == samples[Len(samples)]

OfCurrency(db, c) == SelectSeq(db, LAMBDA t : t.money_type = c)

\* the exact (unrounded) sum of the finite amounts of the transactions of db
\* whose direction is in dirs
ExactSum(db, dirs) ==
    LET S[i \in 0..Len(db)] ==
            IF i = 0 THEN 0
            ELSE S[i - 1] + (IF db[i].direction \in dirs THEN db[i].amount.v ELSE 0)
    IN  S[Len(db)]

\* (Borrowed + Returned) - (Lent + Repaid), exact
SignedSum(db) ==
    ExactSum(db, {BorrowedDir, ReturnedDir}) - ExactSum(db, {LentDir, RepaidDir})

\* no addition of the scan over db is rounded: the exact signed sum of every
\* prefix is a value of the floating point format
NothingRounded(db) ==
    \A n \in 0..Len(db) : Round(SignedSum(SubSeq(db, 1, n))) = SignedSum(SubSeq(db, 1, n))

Currencies == {"GEL", "USD", "EUR"}

\* C11 as stated: the aggregate balance of every currency is the sum of its
\* Borrowed and Returned amounts minus the sum of its Lent and Repaid amounts
C11_BalanceIsSum ==
    analysis.shown
        => \A c \in Currencies :
              analysis.balances[c] = Fin(SignedSum(OfCurrency(ledger, c)))

\* C11 amended: the aggregate balance of a currency is the balance computed
\* from that currency's transactions alone, whatever the other currencies
\* hold, and it is the sum of its Borrowed and Returned amounts minus the
\* sum of its Lent and Repaid amounts whenever no addition of the scan is
\* rounded
C11_BalanceIsLocalFold ==
    analysis.shown
        => \A c \in Currencies :
              /\ analysis.balances[c] = balances_by_currency(OfCurrency(ledger, c))[c]
              /\ NothingRounded(OfCurrency(ledger, c))
                    => analysis.balances[c] = Fin(SignedSum(OfCurrency(ledger, c)))

C11_Witness ==
    /\ analysis.shown
    /\ Len(ledger) = 3
    /\ Len(OfCurrency(ledger, "GEL")) = 2
    /\ Len(OfCurrency(ledger, "USD")) = 1
    /\ ledger[2].money_type = "USD"
    /\ ledger[1].direction = LentDir
    /\ ledger[3].direction = RepaidDir
    /\ NothingRounded(OfCurrency(ledger, "GEL"))
    /\ analysis.balances["GEL"] = Fin(-2)
    /\ analysis.balances["USD"] = Fin(2)
    /\ analysis.balances["EUR"] = Fin(0)

\* the transactions of counterparty p, in ledger order
OfPerson(db, p) == SelectSeq(db, LAMBDA t : t.person = p)

\* the transactions of direction d, in ledger order
OfDirection(db, d) == SelectSeq(db, LAMBDA t : t.direction = d)

Persons(db) == {db[i].person : i \in 1..Len(db)}

\* (lent - returned) - (borrowed - repaid), exact
ExactOutstanding(db) ==
    (ExactSum(db, {LentDir}) - ExactSum(db, {ReturnedDir}))
        - (ExactSum(db, {BorrowedDir}) - ExactSum(db, {RepaidDir}))

Exact(n) == Round(n) = n

\* no addition of calculate_person_stats over db is rounded
NoStatRounded(db) ==
    \A n \in 0..Len(db) :
        /\ \A d \in Direction : Exact(ExactSum(SubSeq(db, 1, n), {d}))
        /\ Exact(ExactOutstanding(SubSeq(db, 1, n)))

\* the Lent and Returned subsequences are the person's own, in ledger order
SubsequencesInOrder(db, p, stats) ==
    /\ stats.lent_transactions = OfDirection(OfPerson(db, p), LentDir)
    /\ stats.return_transactions = OfDirection(OfPerson(db, p), ReturnedDir)

\* C12 as stated: the four totals are the sums of the person's amounts of
\* each direction, outstanding = (lent - returned) - (borrowed - repaid),
\* and the Lent and Returned subsequences are the person's, in ledger order
C12_StatsAreSums ==
    analysis.shown
        => /\ DOMAIN analysis.people = Persons(ledger)
           /\ \A p \in Persons(ledger) :
                 LET stats == analysis.people[p]
                     own == OfPerson(ledger, p)
                 IN  /\ stats.lent = Fin(ExactSum(own, {LentDir}))
                     /\ stats.borrowed = Fin(ExactSum(own, {BorrowedDir}))
                     /\ stats.returned = Fin(ExactSum(own, {ReturnedDir}))
                     /\ stats.repaid = Fin(ExactSum(own, {RepaidDir}))
                     /\ stats.outstanding =
                            FSub(FSub(stats.lent, stats.returned),
                                 FSub(stats.borrowed, stats.repaid))
                     /\ SubsequencesInOrder(ledger, p, stats)

\* C12 amended: the subsequences are as stated for every ledger, and the
\* totals and outstanding are as stated whenever no addition is rounded
C12_StatsAreSumsUnrounded ==
    analysis.shown
        => /\ DOMAIN analysis.people = Persons(ledger)
           /\ \A p \in Persons(ledger) :
                 LET stats == analysis.people[p]
                     own == OfPerson(ledger, p)
                 IN  /\ SubsequencesInOrder(ledger, p, stats)
                     /\ NoStatRounded(own)
                           => /\ stats.lent = Fin(ExactSum(own, {LentDir}))
                              /\ stats.borrowed = Fin(ExactSum(own, {BorrowedDir}))
                              /\ stats.returned = Fin(ExactSum(own, {ReturnedDir}))
                              /\ stats.repaid = Fin(ExactSum(own, {RepaidDir}))
                              /\ stats.outstanding = Fin(ExactOutstanding(own))
                              /\ stats.outstanding =
                                     FSub(FSub(stats.lent, stats.returned),
                                          FSub(stats.borrowed, stats.repaid))

C12_Witness ==
    /\ analysis.shown
    /\ Persons(ledger) = {"ann", "bob"}
    /\ Len(ledger) = 3
    /\ ledger[2].person = "bob"
    /\ NoStatRounded(OfPerson(ledger, "ann"))
    /\ Len(analysis.people["ann"].lent_transactions) = 1
    /\ Len(analysis.people["ann"].return_transactions) = 1
    /\ analysis.people["ann"].outstanding = Fin(7)
    /\ analysis.people["bob"].outstanding = Fin(-2)

(* --------------------------- people properties ------------------------- *)

\* the ledger positions of p's transactions of direction d
PositionsOf(db, p, d) ==
    {i \in 1..Len(db) : db[i].person = p /\ db[i].direction = d}

\* p's loans that carry an expected return date
Promises(db, p) ==
    {i \in PositionsOf(db, p, LentDir) : db[i].expected_return_date # NoDate}

\* p's returns that are not before loan i
ReturnsSince(db, p, i) ==
    {j \in PositionsOf(db, p, ReturnedDir) : db[j].datetime >= db[i].datetime}

\* the promise of loan i was kept: there is a return not before the loan,
\* and the earliest such return has a date on or before the expected date
PromiseKept(db, p, i) ==
    \E j \in ReturnsSince(db, p, i) :
        /\ \A k \in ReturnsSince(db, p, i) : db[j].datetime <= db[k].datetime
        /\ date(db[j].datetime) <= db[i].expected_return_date

\* C14: the promise-keeping figure of a person is (kept, total) with total
\* the number of the person's loans that carry an expected date and kept
\* the number of those whose earliest return not before the loan has a date
\* on or before the expected date; it is not computable without such a loan
C14_PromiseKeeping ==
    analysis.shown
        => \A p \in Persons(ledger) :
              analysis.cards[p].drawn
                  => LET promises == analysis.cards[p].promises
                     IN  IF Promises(ledger, p) = {} THEN ~promises.some
                         ELSE /\ promises.some
                              /\ promises.total = Cardinality(Promises(ledger, p))
                              /\ promises.kept =
                                     Cardinality({i \in Promises(ledger, p) :
                                                     PromiseKept(ledger, p, i)})

\* two promises judged by one return of another amount: the one expected on
\* the day of the return or later is kept, the one expected earlier is broken
C14_Witness ==
    /\ analysis.shown
    /\ Len(ledger) = 3
    /\ Cardinality(Promises(ledger, "ann")) = 2
    /\ \E i, j \in Promises(ledger, "ann") :
          /\ PromiseKept(ledger, "ann", i)
          /\ ~PromiseKept(ledger, "ann", j)
    /\ \E r \in PositionsOf(ledger, "ann", ReturnedDir) : ledger[r].amount = Fin(8)
    /\ analysis.cards["ann"].promises.some
    /\ analysis.cards["ann"].promises.kept = 1
    /\ analysis.cards["ann"].promises.total = 2

\* p's loans that are not after return j
LoansUntil(db, p, j) ==
    {i \in PositionsOf(db, p, LentDir) : db[i].datetime <= db[j].datetime}

\* p's returns that have a loan to be matched with
MatchedReturns(db, p) ==
    {j \in PositionsOf(db, p, ReturnedDir) : LoansUntil(db, p, j) # {}}

\* the whole days between return j and the latest loan not after it
ReturnDays(db, p, j) ==
    LET latest == MaxOf({db[i].datetime : i \in LoansUntil(db, p, j)})
    IN  date(db[j].datetime) - date(latest)

RECURSIVE SumDays(_, _, _)
SumDays(db, p, S) ==
    IF S = {} THEN 0
    ELSE LET j == CHOOSE x \in S : TRUE
         IN  ReturnDays(db, p, j) + SumDays(db, p, S \ {j})

\* C15: the average return time of a person is the sum, over the returns
\* that have a loan not after them, of the whole days between the return and
\* the latest such loan, divided by the number of those returns; it is not
\* computable when there is no such return
C15_AverageReturn ==
    analysis.shown
        => \A p \in Persons(ledger) :
              analysis.cards[p].drawn
                  => LET avg == analysis.cards[p].avg_return
                     IN  IF MatchedReturns(ledger, p) = {} THEN ~avg.some
                         ELSE /\ avg.some
                              /\ avg.count = Cardinality(MatchedReturns(ledger, p))
                              /\ avg.total_days = SumDays(ledger, p, MatchedReturns(ledger, p))

\* a return before every loan is left out, and a return after two loans is
\* matched with the later one
C15_Witness ==
    /\ analysis.shown
    /\ Len(ledger) = 3
    /\ \E j \in PositionsOf(ledger, "ann", ReturnedDir) :
          /\ Cardinality(LoansUntil(ledger, "ann", j)) = 2
          /\ ledger[j].datetime = 4
          /\ \E i \in LoansUntil(ledger, "ann", j) : ledger[i].datetime = 1
    /\ analysis.cards["ann"].avg_return.some
    /\ analysis.cards["ann"].avg_return.count = 1
    /\ analysis.cards["ann"].avg_return.total_days = 1

(* ---------------------- transaction list properties -------------------- *)

\* the positions of the group's Lent and Borrowed transactions, in order
DebtsOf(db, key) ==
    SelectSeq([i \in 1..Len(db) |-> i],
              LAMBDA i : /\ db[i].person = key[1] /\ db[i].money_type = key[2]
                         /\ db[i].direction \in {LentDir, BorrowedDir})

\* the group's transactions
GroupOf(db, key) ==
    SelectSeq(db, LAMBDA t : t.person = key[1] /\ t.money_type = key[2])

\* the exact pooled Returned + Repaid total of the group
ExactPool(db, key) == ExactSum(GroupOf(db, key), {ReturnedDir, RepaidDir})

\* the exact cumulative amount of the first k debts of the group
ExactCumulative(db, key, k) ==
    LET debts == DebtsOf(db, key)
        C[i \in 0..k] == IF i = 0 THEN 0 ELSE C[i - 1] + db[debts[i]].amount.v
    IN  C[k]

\* the longest prefix of the group's debts whose cumulative amount does not
\* exceed the pooled total
LongestPrefix(db, key) ==
    LET debts == DebtsOf(db, key)
        fits == {k \in 0..Len(debts) :
                    \A j \in 1..k : ExactCumulative(db, key, j) <= ExactPool(db, key)}
    IN  {debts[j] : j \in 1..MaxOf(fits)}

\* neither the pooled total nor a remainder the loop computes is rounded
NoPoolRounded(db, key) ==
    /\ \A n \in 0..Len(GroupOf(db, key)) :
          Exact(ExactSum(SubSeq(GroupOf(db, key), 1, n), {ReturnedDir, RepaidDir}))
    /\ \A k \in 0..Len(DebtsOf(db, key)) :
          ExactCumulative(db, key, k) <= ExactPool(db, key)
              => Exact(ExactPool(db, key) - ExactCumulative(db, key, k))

\* C13 as stated: in every group the marked transactions are exactly the
\* longest prefix of the group's Lent and Borrowed transactions, in ledger
\* order, whose cumulative amount does not exceed the pooled Returned and
\* Repaid total; hence nothing after the first misfit and no Returned or
\* Repaid transaction is marked
C13_LongestPrefix ==
    paid_back.shown
        => paid_back.indices = UNION {LongestPrefix(ledger, key) : key \in DebtGroups(ledger)}

\* C13 amended: the marked transactions of a group are a prefix of its Lent
\* and Borrowed transactions in ledger order, no Returned or Repaid
\* transaction is marked, and the prefix is the longest one that fits the
\* pooled total whenever neither the pool nor a remainder is rounded
C13_PrefixUnrounded ==
    paid_back.shown
        => /\ \A i \in paid_back.indices :
                 /\ i \in 1..Len(ledger)
                 /\ ledger[i].direction \in {LentDir, BorrowedDir}
           /\ \A key \in DebtGroups(ledger) :
                 LET debts == DebtsOf(ledger, key)
                 IN  /\ \A j, k \in 1..Len(debts) :
                            (j < k /\ debts[k] \in paid_back.indices)
                                => debts[j] \in paid_back.indices
                     /\ NoPoolRounded(ledger, key)
                           => \A k \in 1..Len(debts) :
                                 debts[k] \in paid_back.indices
                                     <=> debts[k] \in LongestPrefix(ledger, key)

\* Lent 12, Lent 1, Returned 1: the first does not fit and the second, which
\* would fit, is not marked
C13_Witness ==
    /\ paid_back.shown
    /\ Len(ledger) = 3
    /\ \A i \in 1..3 : ledger[i].person = "ann" /\ ledger[i].money_type = "GEL"
    /\ ledger[1].direction = LentDir /\ ledger[1].amount = Fin(12)
    /\ ledger[2].direction = LentDir /\ ledger[2].amount = Fin(1)
    /\ ledger[3].direction = ReturnedDir /\ ledger[3].amount = Fin(1)
    /\ NoPoolRounded(ledger, <<"ann", "GEL">>)
    /\ paid_back.indices = {}


(* ------------------------ properties: the add form --------------------- *)

\* the amount texts that are numbers greater than zero, the names that are
\* blank
PositiveTexts == {"1", "2", "8", "inf"}
BlankNames == {"", " "}

Positive(a) == a.k \in {"fin", "inf"} /\ a.v > 0

\* C16: a click on Add with an amount text that is no number, an amount
\* that is not above zero or a blank name leaves the ledger and the files
\* as they are and starts no save; and every transaction a step appends has
\* an amount above zero and a name that is not blank.
C16_InvalidInputRejected ==
    [][/\ \A person_name \in FormNames, amount \in FormAmounts :
             (/\ AddClick(person_name, amount, "GEL", 0, 1, "", 0)
              /\ (amount \notin PositiveTexts \/ person_name \in BlankNames))
             => UNCHANGED <<ledger, pc, caller, fsVars>>
       /\ \A i \in 1..Len(ledger') :
             i > Len(ledger) =>
                /\ Positive(ledger'[i].amount)
                /\ ledger'[i].person \notin BlankNames]_vars

\* an invalid click was rejected after a transaction had been added
C16_Witness ==
    /\ pc = "idle"
    /\ status_message = "warn"
    /\ Len(ledger) = 1
    /\ Positive(ledger[1].amount)
    /\ primary.kind # "absent"

\* C17: a transaction of the ledger has an expected return date only if its
\* direction is Lent or Borrowed, whatever the order of the Set date
\* checkbox, the Direction box, Add and the Change Deadline window.
C17_DateOnlyOnDebts ==
    \A i \in 1..Len(ledger) :
        ledger[i].expected_return_date # NoDate
            => ledger[i].direction \in {LentDir, BorrowedDir}

\* a Returned transaction was added without a date next to a Lent one whose
\* date the Change Deadline window has changed
C17_Witness ==
    /\ \E i \in 1..Len(ledger) :
          /\ ledger[i].direction \in {ReturnedDir, RepaidDir}
          /\ ledger[i].expected_return_date = NoDate
    /\ \E j \in 1..Len(ledger) :
          /\ ledger[j].direction = LentDir
          /\ ledger[j].expected_return_date = 2
          /\ ledger[j].deadline_changes # <<>>

(* --------------------- properties: deadline history -------------------- *)

\* the change times of a history never decrease along it
OrderedByChangeTime(h) ==
    \A i, j \in 1..Len(h) : i < j => h[i].changed_at <= h[j].changed_at

IsPrefix(g, h) == Len(g) <= Len(h) /\ SubSeq(h, 1, Len(g)) = g

\* C18 as stated: the history of every transaction is ordered by change
\* time.
C18_OrderedByChangeTime ==
    \A i \in 1..Len(ledger) : OrderedByChangeTime(ledger[i].deadline_changes)

\* C18 amended: in every step the history of every transaction stays a
\* prefix of its next history; it grows by one entry exactly when the step
\* changes the transaction's expected return date, and the entry holds the
\* date before, the date after and the local time of the step; the
\* histories are ordered by change time as long as the local clock has not
\* been set back.
C18_AppendOnlyHistory ==
    [][/\ Len(ledger') >= Len(ledger)
       /\ \A i \in 1..Len(ledger) :
             LET h == ledger[i].deadline_changes
                 g == ledger'[i].deadline_changes
                 old == ledger[i].expected_return_date
                 new == ledger'[i].expected_return_date
             IN  /\ IsPrefix(h, g)
                 /\ Len(g) = IF new # old THEN Len(h) + 1 ELSE Len(h)
                 /\ new # old =>
                       g[Len(g)] = [old_date |-> old, new_date |-> new, changed_at |-> now]
       /\ \A i \in 1..Len(ledger') : ledger'[i].deadline_changes # <<>> => i <= Len(ledger)
       /\ ~clockBack' => \A i \in 1..Len(ledger') :
                              OrderedByChangeTime(ledger'[i].deadline_changes)]_vars

\* a deadline was changed twice at different times on a clock that was never
\* set back, next to a transaction whose deadline was never changed
C18_Witness ==
    /\ ~clockBack
    /\ Len(ledger) = 2
    /\ Len(ledger[1].deadline_changes) = 2
    /\ ledger[1].deadline_changes[1].changed_at < ledger[1].deadline_changes[2].changed_at
    /\ ledger[1].deadline_changes[1].new_date = ledger[1].deadline_changes[2].old_date
    /\ ledger[2].deadline_changes = <<>>

(* ------------------------ properties: the ledger ----------------------- *)

\* the fields of a transaction that no operation writes after it was added
Identity(t) ==
    [person |-> t.person, amount |-> t.amount, money_type |-> t.money_type,
     direction |-> t.direction, datetime |-> t.datetime]

\* C19: in every step of a run the ledger keeps its length or grows by one
\* transaction at its end, and every transaction it held stays at its
\* position with its counterparty, amount, currency, direction and time; its
\* history stays a prefix of its next history.
C19_LedgerAppendOnly ==
    [][/\ Len(ledger') \in {Len(ledger), Len(ledger) + 1}
       /\ \A i \in 1..Len(ledger) :
             /\ Identity(ledger'[i]) = Identity(ledger[i])
             /\ IsPrefix(ledger[i].deadline_changes, ledger'[i].deadline_changes)]_vars

\* the first of two different transactions has got an attachment, another
\* expected return date and a history entry
C19_Witness ==
    /\ pc = "idle"
    /\ Len(ledger) = 2
    /\ ledger[1].direction = LentDir
    /\ ledger[2].direction = ReturnedDir
    /\ ledger[1].attachment_path # NoPath
    /\ ledger[1].expected_return_date = 2
    /\ Len(ledger[1].deadline_changes) = 1

(* --------------------- properties: attachment store -------------------- *)

\* the extension of each source path, "" for none, and the one the stored
\* name ends with
OriginalExtension == [source \in {"a.png", "notes"} |-> IF source = "a.png" THEN "png" ELSE ""]
StoredExtension == [source \in {"a.png", "notes"} |-> "png"]

StoredPath(source, timestamp, ext) ==
    "attachments/" \o ToString(timestamp) \o "_" \o source \o "." \o ext

\* fs and gs hold the same files with the same bytes, but for path
SameBut(fs, gs, path) ==
    /\ (DOMAIN gs) \ {path} = (DOMAIN fs) \ {path}
    /\ \A x \in (DOMAIN fs) \ {path} : gs[x] = fs[x]

IsProperPrefix(g, h) == Len(g) < Len(h) /\ SubSeq(h, 1, Len(g)) = g

C21_FailedSaveReported ==
    [][(pc = "ret" /\ saveResult = "Err" /\ pc' = "idle") => status_message' = "err"]_vars

(* ------------------- properties: the backup directory ------------------ *)

\* the names transactions_backup_<timestamp>.json
BackupPattern == 0..MaxNow

ForeignFiles(dir) == {i \in 1..Len(dir) : dir[i].name \notin BackupPattern}
PatternFiles(dir) == {i \in 1..Len(dir) : dir[i].name \in BackupPattern}

\* C22: load never restores from a file of the backup directory whose name
\* is not transactions_backup_<timestamp>.json; pruning never deletes such a
\* file, and it keeps the MAX_BACKUPS most recently modified files of that
\* name however many others the directory holds.
C22_OnlyPatternFiles ==
    [][/\ (pc = "down" /\ pc' = "loaded")
          => load(primary, backupDir, backups).restore \in BackupPattern \cup {NoFile}
       /\ \A i \in ForeignFiles(backups) :
             \E j \in ForeignFiles(backups') : backups'[j] = backups[i]
       /\ (pc = "cleanup" /\ pc' = "ret")
          => Cardinality(PatternFiles(backups')) =
                IF Cardinality(PatternFiles(backups)) > MAX_BACKUPS THEN MAX_BACKUPS
                ELSE Cardinality(PatternFiles(backups))]_vars

(* --------------------- properties: balance timeline -------------------- *)

\* the 0-based place of db[i] when db is ordered by occurred_at with ties in
\* insertion order
ChronoRank(db, i) ==
    Cardinality({j \in 1..Len(db) :
                    \/ db[j].datetime < db[i].datetime
                    \/ (db[j].datetime = db[i].datetime /\ j < i)})

\* the ledger position of the transaction of that place
AtRank(db, r) == CHOOSE i \in 1..Len(db) : ChronoRank(db, i) = r

\* the f64 balance of currency c after the transactions of the places 0..r
RECURSIVE BalanceUpTo(_, _, _)
BalanceUpTo(db, c, r) ==
    IF r < 0 THEN Fin(0)
    ELSE LET t == db[AtRank(db, r)]
             before == BalanceUpTo(db, c, r - 1)
         IN  IF t.money_type # c THEN before
             ELSE IF t.direction \in {LentDir, RepaidDir} THEN FSub(before, t.amount)
             ELSE FAdd(before, t.amount)

TimelineOf(db, tl) ==
    /\ DOMAIN tl = {db[i].money_type : i \in 1..Len(db)}
    /\ \A c \in DOMAIN tl :
          /\ Len(tl[c]) = Cardinality({i \in 1..Len(db) : db[i].money_type = c})
          /\ {tl[c][k][1] : k \in 1..Len(tl[c])} =
                {ChronoRank(db, i) : i \in {j \in 1..Len(db) : db[j].money_type = c}}
          /\ \A k \in 1..Len(tl[c]) :
                /\ k > 1 => tl[c][k - 1][1] < tl[c][k][1]
                /\ tl[c][k][2] = BalanceUpTo(db, c, tl[c][k][1])

\* C23: showing the analysis leaves the ledger as it is, and the timeline
\* holds for each currency of the ledger one sample per transaction of that
\* currency: the indices are the places of these transactions in the ledger
\* ordered by occurred_at with ties in insertion order, they increase along
\* the samples, and each balance is the one reached after the transaction of
\* that place.
C23_TimelineSamples ==
    [][/\ ledger' = ledger
       /\ analysis'.shown => TimelineOf(ledger', analysis'.timeline)]_vars

\* a timeline of two currencies whose transactions were entered out of
\* chronological order and with two at the same time
C23_Witness ==
    /\ analysis.shown
    /\ Len(ledger) = 3
    /\ ledger[1].datetime = 1
    /\ ledger[2].datetime = 0 /\ ledger[2].money_type = "USD"
    /\ ledger[3].datetime = 0 /\ ledger[3].money_type = "GEL"
    /\ analysis.timeline["USD"] = <<<<0, Fin(2)>>>>
    /\ Len(analysis.timeline["GEL"]) = 2
    /\ analysis.timeline["GEL"][1][1] = 1
    /\ analysis.timeline["GEL"][2][1] = 2

(* ------------------ properties: promises and one return ---------------- *)

\* loan i is not after return j, and j's date is on or before i's expected
\* date
InTime(db, i, j) ==
    /\ db[j].datetime >= db[i].datetime
    /\ date(db[j].datetime) <= db[i].expected_return_date

\* C24: when a person has a single Returned transaction and it is in time
\* for each of the person's loans that carry an expected date, every one of
\* these loans counts as kept, however many they are.
C24_OneReturnKeepsAll ==
    analysis.shown
        => \A p \in Persons(ledger) :
              \A j \in PositionsOf(ledger, p, ReturnedDir) :
                  (/\ PositionsOf(ledger, p, ReturnedDir) = {j}
                   /\ Promises(ledger, p) # {}
                   /\ \A i \in Promises(ledger, p) : InTime(ledger, i, j))
                  => /\ analysis.cards[p].promises.some
                     /\ analysis.cards[p].promises.total = Cardinality(Promises(ledger, p))
                     /\ analysis.cards[p].promises.kept = Cardinality(Promises(ledger, p))

\* two loans of different times with expected dates and one return after
\* both: 2 of 2
C24_Witness ==
    /\ analysis.shown
    /\ Len(ledger) = 3
    /\ Cardinality(PositionsOf(ledger, "ann", ReturnedDir)) = 1
    /\ Cardinality(Promises(ledger, "ann")) = 2
    /\ \E i, k \in Promises(ledger, "ann") : ledger[i].datetime < ledger[k].datetime
    /\ \A i \in Promises(ledger, "ann") :
          \A j \in PositionsOf(ledger, "ann", ReturnedDir) : InTime(ledger, i, j)
    /\ analysis.cards["ann"].promises.kept = 2
    /\ analysis.cards["ann"].promises.total = 2

(* ------------------- properties: deadline history chain ---------------- *)

\* the history h of a transaction whose expected return date is now `current`
\* is a chain: no entry keeps the date, each entry starts from the date the
\* one before it ended with, and the last one ends with the current date
IsChain(h, current) ==
    /\ \A k \in 1..Len(h) : h[k].old_date # h[k].new_date
    /\ \A k \in 2..Len(h) : h[k].old_date = h[k - 1].new_date
    /\ h # <<>> => h[Len(h)].new_date = current

\* C25: the deadline history of every transaction is a chain in every step,
\* and a Save of the Change Deadline window that picks the date the
\* transaction already has changes neither the ledger nor the files and
\* starts no save.
C25_HistoryChain ==
    [][/\ \A i \in 1..Len(ledger') :
             IsChain(ledger'[i].deadline_changes, ledger'[i].expected_return_date)
       /\ (/\ DeadlineSave
           /\ ledger[editing_deadline_for].expected_return_date = temp_new_deadline)
          => UNCHANGED <<ledger, pc, caller, fsVars>>]_vars

\* a history of two entries that comes back to the first date, with the
\* Change Deadline window closed
C25_Witness ==
    /\ pc = "idle"
    /\ Len(ledger) >= 1
    /\ Len(ledger[1].deadline_changes) = 2
    /\ ledger[1].deadline_changes[1].old_date = ledger[1].deadline_changes[2].new_date
    /\ ledger[1].expected_return_date = 1
    /\ editing_deadline_for = 0
    /\ temp_new_deadline = 1
    /\ status_message = "ok"

(* -------------------- properties: memory and storage ------------------- *)

\* the ledger the primary file holds, the empty one when there is no file
Persisted == IF primary.kind = "absent" THEN <<>> ELSE primary.txs

\* C26: while the program is idle with neither window open, and no save has
\* failed, the primary file holds the ledger that is in memory.
C26_PrimaryIsLedger ==
    (/\ pc = "idle"
     /\ editing_deadline_for = 0
     /\ edit_transaction_index = 0
     /\ faults = 0)
    => Persisted = to_string_pretty(ledger).txs

(* ------------------------ properties: the marks ------------------------ *)

\* C27: a transaction the Transactions tab has marked as paid back is marked
\* again whenever the tab is shown later, whatever was added to the ledger
\* and whichever deadline or attachment was edited in between.
C27_MarksStay ==
    [][paid_back.indices \subseteq paid_back'.indices]_vars

\* the marks shown after a transaction was added and the deadline and the
\* attachment of the first one were edited: the first loan is still marked
C27_Witness ==
    /\ paid_back.shown
    /\ Len(ledger) = MaxLedger
    /\ 1 \in paid_back.indices
    /\ ledger[1].deadline_changes # <<>>
    /\ ledger[1].attachment_path # NoPath
    /\ ledger[Len(ledger)].direction = LentDir
    /\ Len(ledger) \notin paid_back.indices

\* C28: a save that fails at the creation of the backup directory or at the
\* pre-save backup copy leaves the primary file as it was when the save began;
\* a save that fails at the post-save backup or at the pruning returns its
\* error with the primary file already holding the new ledger.
C28_FailedSaveStorage ==
    [][(pc # "ret" /\ pc' = "ret" /\ saveResult' = "Err") =>
          /\ pc \in {"mkdir", "pre"} => primary' = atStart.primary
          /\ pc \in {"post", "cleanup"} => primary' = to_string_pretty(ledger)]_vars

\* a save has just failed after the write: the primary holds the new ledger,
\* which is not what it held when the save began
C28_Witness ==
    /\ pc = "ret"
    /\ saveResult = "Err"
    /\ primary = to_string_pretty(ledger)
    /\ atStart.primary.kind = "json"
    /\ atStart.primary # primary

\* the exact sum of the outstanding figures of the counterparties in S
RECURSIVE SumOutstanding(_, _)
SumOutstanding(people, S) ==
    IF S = {} THEN 0
    ELSE LET p == CHOOSE q \in S : TRUE
         IN  people[p].outstanding.v + SumOutstanding(people, S \ {p})

\* the exact sum of the aggregate balances of the three currencies
SumBalances(balances) == balances["GEL"].v + balances["USD"].v + balances["EUR"].v

\* every figure the two scans produced is a finite number
FiniteFigures ==
    /\ \A p \in DOMAIN analysis.people : analysis.people[p].outstanding.k = "fin"
    /\ \A c \in Currencies : analysis.balances[c].k = "fin"

\* C29 as stated: for every ledger the outstanding figures of all
\* counterparties add up to the negation of the sum of the aggregate
\* balances of all currencies
C29_OutstandingMirrorsBalances ==
    analysis.shown
        => /\ FiniteFigures
           /\ SumOutstanding(analysis.people, DOMAIN analysis.people)
                 = -SumBalances(analysis.balances)

\* no addition of either scan over db is rounded
NoScanRounded(db) ==
    /\ \A p \in Persons(db) : NoStatRounded(OfPerson(db, p))
    /\ \A c \in Currencies : NothingRounded(OfCurrency(db, c))

\* C29 amended: each counterparty's outstanding is +Lent -Borrowed -Returned
\* +Repaid over that counterparty's amounts and each currency's balance is
\* the opposite over that currency's amounts, so the outstanding figures add
\* up to the negation of the sum of the balances whenever no addition of
\* either scan is rounded
C29_MirrorWhenUnrounded ==
    (analysis.shown /\ NoScanRounded(ledger))
        => /\ FiniteFigures
           /\ \A p \in Persons(ledger) :
                 analysis.people[p].outstanding.v = ExactOutstanding(OfPerson(ledger, p))
           /\ \A c \in Currencies :
                 analysis.balances[c].v = SignedSum(OfCurrency(ledger, c))
           /\ SumOutstanding(analysis.people, DOMAIN analysis.people)
                 = -SumBalances(analysis.balances)

\* two counterparties share GEL, one of them also lent USD, a repayment is
\* among the amounts and nothing is rounded
C29_Witness ==
    /\ analysis.shown
    /\ NoScanRounded(ledger)
    /\ Persons(ledger) = {"ann", "bob"}
    /\ \E i \in 1..Len(ledger) : ledger[i].person = "bob" /\ ledger[i].money_type = "GEL"
    /\ \E i \in 1..Len(ledger) : ledger[i].person = "ann" /\ ledger[i].money_type = "GEL"
                                    /\ ledger[i].direction = RepaidDir
    /\ \E i \in 1..Len(ledger) : ledger[i].person = "ann" /\ ledger[i].money_type = "USD"
    /\ SumOutstanding(analysis.people, DOMAIN analysis.people) = 4
    /\ SumBalances(analysis.balances) = -4

(* ------------------ properties: promise-keeping figure ----------------- *)

\* p's promises that have no return at or after the loan
Unanswered(db, p) == {i \in Promises(db, p) : ReturnsSince(db, p, i) = {}}

\* C30: whenever the Analysis tab computes a promise-keeping figure for a
\* person, 0 <= kept <= total, total >= 1 and total is the number of the
\* person's loans that carry an expected date; a loan with an expected date
\* and no return at or after it counts in total and not in kept; and kept
\* counts the loans whose first return is on or before the expected date
\* the transaction has now, after the deadline changes made so far.
\* ShowAnalysis is the one action that writes analysis.
C30_PromiseFigure ==
    [][(analysis' # analysis /\ analysis'.shown) =>
          \A p \in Persons(ledger) :
              LET promises == analysis'.cards[p].promises
              IN  promises.some
                     => /\ 0 <= promises.kept
                        /\ promises.kept <= promises.total
                        /\ promises.total >= 1
                        /\ promises.total = Cardinality(Promises(ledger, p))
                        /\ promises.kept <= promises.total - Cardinality(Unanswered(ledger, p))
                        /\ promises.kept =
                               Cardinality({i \in Promises(ledger, p) :
                                               PromiseKept(ledger, p, i)})]_vars

\* ann's loan was first expected on day 0 and is now expected on day 1, her
\* return came on day 1: 1 of 1; bob's loan has no return: 0 of 1
C30_Witness ==
    /\ analysis.shown
    /\ Len(ledger) = 3
    /\ ledger[1].person = "ann"
    /\ ledger[1].deadline_changes # <<>>
    /\ ledger[1].deadline_changes[1].old_date = 0
    /\ ledger[1].expected_return_date = 1
    /\ Promises(ledger, "ann") = {1}
    /\ \A j \in ReturnsSince(ledger, "ann", 1) : date(ledger[j].datetime) = 1
    /\ analysis.cards["ann"].promises.some
    /\ analysis.cards["ann"].promises.kept = 1
    /\ analysis.cards["ann"].promises.total = 1
    /\ Unanswered(ledger, "bob") # {}
    /\ analysis.cards["bob"].promises.some
    /\ analysis.cards["bob"].promises.kept = 0
    /\ analysis.cards["bob"].promises.total = 1

=============================================================================
